---- MODULE Spec2Model ----
(***************************************************************************)
(* MemBox frontend: the user identity store (hooks/use-user.ts), the       *)
(* session store (useChatSessions with an owning user id), the chat page   *)
(* (app/page.tsx) and the chat route handler (app/api/chat/route.ts).      *)
(*                                                                         *)
(* Strings are sequences of one-character strings, so that trim,           *)
(* toLowerCase, replace(/\s+/g, "_") and the cookie writer and reader are  *)
(* computed character by character.                                        *)
(***************************************************************************)
EXTENDS Integers, Sequences, FiniteSets, TLC

\* ------------------------------------------------------------------ bounds
MaxNameLen == 2
\* user records listed at once: in the identity store taken alone
MaxListed == 1
\* user records listed at once: in the identity store with the session store
MaxUsers == 2
MaxSessions == 3
MaxTurns == 1

\* ----------------------------------------------------------------- strings
\* The characters a user name is typed from: a letter in both cases, a blank
\* and the cookie separator.
Alphabet == {"a", "A", " ", ";"}

RECURSIVE StringsUpTo(_)
StringsUpTo(n) ==
  IF n = 0 THEN {<<>>}
  ELSE LET shorter == StringsUpTo(n - 1)
       IN  shorter \cup {Append(s, c) : s \in {t \in shorter : Len(t) = n - 1}, c \in Alphabet}

Names == StringsUpTo(MaxNameLen)

IsSpace(c) == c = " "

LowerChar(c) == IF c = "A" THEN "a" ELSE c

\* String.prototype.toLowerCase
ToLowerCase(s) == [i \in 1..Len(s) |-> LowerChar(s[i])]

RECURSIVE TrimStart(_)
TrimStart(s) ==
  IF s # <<>> /\ IsSpace(Head(s)) THEN TrimStart(Tail(s)) ELSE s

RECURSIVE TrimEnd(_)
TrimEnd(s) ==
  IF s # <<>> /\ IsSpace(s[Len(s)]) THEN TrimEnd(SubSeq(s, 1, Len(s) - 1)) ELSE s

\* String.prototype.trim
Trim(s) == TrimEnd(TrimStart(s))

\* s.replace(/\s+/g, "_"): every maximal run of blanks becomes one underscore
RECURSIVE ReplaceSpaces(_)
ReplaceSpaces(s) ==
  IF s = <<>> THEN <<>>
  ELSE IF IsSpace(Head(s))
       THEN <<"_">> \o ReplaceSpaces(TrimStart(s))
       ELSE <<Head(s)>> \o ReplaceSpaces(Tail(s))

\* ------------------------------------------------------------ user records
\* "no user" (null): the empty id is falsy in every test the code makes
NoUser == [id |-> <<>>, name |-> <<>>]
NoId == <<>>

\* an id that keeps the letter case of the name as it was typed
UserIdKeepingCase(normalizedName) == ReplaceSpaces(normalizedName)

\* the id login gives a new user
UserIdOf(normalizedName) == ReplaceSpaces(ToLowerCase(normalizedName))

\* a name test that compares the names as typed
MatchesNameCaseSensitive(u, normalizedName) == u.name = normalizedName

\* users.find((u) => u.name.toLowerCase() === normalizedName.toLowerCase())
MatchesName(u, normalizedName) == ToLowerCase(u.name) = ToLowerCase(normalizedName)

\* Array.prototype.find over a list of users; NoUser for undefined
RECURSIVE FindUserByName(_, _)
FindUserByName(list, normalizedName) ==
  IF list = <<>> THEN NoUser
  ELSE IF MatchesName(Head(list), normalizedName) THEN Head(list)
       ELSE FindUserByName(Tail(list), normalizedName)

RECURSIVE FindUserById(_, _)
FindUserById(list, userId) ==
  IF list = <<>> THEN NoUser
  ELSE IF Head(list).id = userId THEN Head(list)
       ELSE FindUserById(Tail(list), userId)

\* ----------------------------------------------------------------- cookies
\* document.cookie = `membox_user_id=${value}; path=/; max-age=...`: the
\* browser stores what stands before the first ";" of the assigned string.
RECURSIVE UpToSemicolon(_)
UpToSemicolon(s) ==
  IF s = <<>> \/ Head(s) = ";" THEN <<>>
  ELSE <<Head(s)>> \o UpToSemicolon(Tail(s))

CookieWrite(value) == Trim(UpToSemicolon(value))

\* ---------------------------------------------------------- session records
NoSession == 0
NoSessionRec == [id |-> NoSession, userId |-> NoId]

\* a session list that is not filtered by owner
VisibleSessionsUnfiltered(all, userId) == all

\* allSessions.filter((s) => s.userId === userId), [] without a user
VisibleSessions(all, userId) ==
  IF userId = NoId THEN <<>>
  ELSE SelectSeq(all, LAMBDA s : s.userId = userId)

\* list.find((s) => s.id === id) || null
RECURSIVE FindSession(_, _)
FindSession(list, id) ==
  IF list = <<>> THEN NoSessionRec
  ELSE IF Head(list).id = id THEN Head(list)
       ELSE FindSession(Tail(list), id)

\* list[0]?.id || null
FirstId(list) == IF list = <<>> THEN NoSession ELSE Head(list).id

\* a fallback that keeps the deleted session as a candidate
RemainingFirstIdKeepsDeleted(list, sessionId) == FirstId(list)

\* deleteSession: sessions.filter((s) => s.id !== sessionId)[0]?.id || null
RemainingFirstId(list, sessionId) ==
  FirstId(SelectSeq(list, LAMBDA s : s.id # sessionId))

\* a test that only looks for a missing session
NeedsFallbackIfMissing(all, id, userId) == FindSession(all, id) = NoSessionRec

\* the user-change effect's test: the current session is missing or not the user's
NeedsFallback(all, id, userId) ==
  LET found == FindSession(all, id)
  IN  found = NoSessionRec \/ found.userId # userId

\* m.parts.find((p) => p.type === "text"): a message is [role, text], or
\* [role, file] when it has no text part
HasTextPart(m) == "text" \in DOMAIN m

\* messages.find((m) => m.role === "user"), as a sequence of at most one message
FirstUserMessage(msgs) ==
  LET found == SelectSeq(msgs, LAMBDA m : m.role = "user")
  IN  IF found = <<>> THEN <<>> ELSE <<Head(found)>>

\* generateTitle(messages)
GenerateTitle(msgs) ==
  LET firstUserMessage == FirstUserMessage(msgs)
  IN  IF firstUserMessage = <<>> THEN "New Chat"
      ELSE IF ~HasTextPart(firstUserMessage[1]) THEN "New Chat"
      ELSE LET text == firstUserMessage[1].text
           IN  IF Len(text) > 30 THEN SubSeq(text, 1, 30) \o "..." ELSE text

\* generatePreview(messages)
GeneratePreview(msgs) ==
  IF Len(msgs) = 0 THEN "No messages"
  ELSE LET lastMessage == msgs[Len(msgs)]
       IN  IF ~HasTextPart(lastMessage) THEN "No messages"
           ELSE LET text == lastMessage.text
                IN  IF Len(text) > 50 THEN SubSeq(text, 1, 50) \o "..." ELSE text

\* a Date object of the instant now, and the ISO string JSON writes for it;
\* both keep the instant to the millisecond
NewDate(now) == [type |-> "Date", time |-> now]
ToJSON(date) == [type |-> "string", time |-> date.time]

\* new Date(value), of an ISO string or of a Date
DateOf(value) == [type |-> "Date", time |-> value.time]

\* newSession in createSession
NewSession(id, userId, now) ==
  [id |-> id, userId |-> userId, title |-> "New Chat", preview |-> "No messages",
   messages |-> <<>>, createdAt |-> NewDate(now), updatedAt |-> NewDate(now)]

\* a new session put at the end of the list
PutLast(newSession, prev) == Append(prev, newSession)

\* [newSession, ...prev]
PutFirst(newSession, prev) == <<newSession>> \o prev

\* the object updateSessionMessages maps the session to
WithMessages(session, msgs, now) ==
  [session EXCEPT !.messages = msgs,
                  !.title = IF Len(msgs) > 0 THEN GenerateTitle(msgs) ELSE session.title,
                  !.preview = GeneratePreview(msgs),
                  !.updatedAt = NewDate(now)]

\* serializeSessions: JSON.stringify writes the two dates as ISO strings; the
\* other fields are strings and lists of plain objects, written as they are
SerializeSessions(list) ==
  [i \in DOMAIN list |->
     [list[i] EXCEPT !.createdAt = ToJSON(@), !.updatedAt = ToJSON(@)]]

\* a load that stops at JSON.parse: the dates stay strings
DeserializeSessionsAsParsed(data) == data

\* deserializeSessions: JSON.parse, then new Date(...) of the two dates
DeserializeSessions(data) ==
  [i \in DOMAIN data |->
     [data[i] EXCEPT !.createdAt = DateOf(@), !.updatedAt = DateOf(@)]]

\* a save effect without the test of isLoaded
SavedSessionsUnguarded(loaded, all, stored) == SerializeSessions(all)

\* what the effect "save sessions" leaves in local storage
SavedSessions(loaded, all, stored) ==
  IF ~loaded THEN stored ELSE SerializeSessions(all)

\* what the effect "save current session ID" leaves in local storage
SavedCurrent(loaded, current, stored) ==
  IF ~loaded THEN stored ELSE current

VARIABLES
  \* useUser
  currentUser,      \* useState<User | null>
  users,            \* useState<User[]>
  isUserLoaded,     \* useState(false)
  lsUsers,          \* localStorage["membox_users"]
  lsCurrentUser,    \* localStorage["membox_current_user"], NoId when absent
  cookieUser,       \* cookie membox_user_id: [set |-> BOOLEAN, value |-> string]
  \* useChatSessions(userId), userId being currentUser?.id ?? null
  allSessions,      \* useState<ChatSession[]>
  currentSessionId, \* useState<string | null>, NoSession for null
  isLoaded,         \* useState(false)
  sessions,         \* useMemo: the sessions of the current user, as last rendered
  currentSession,   \* the current session object, as last rendered
  lsSessions,       \* localStorage["membox-chat-sessions"]
  lsCurrentSession, \* localStorage["membox-current-session"], NoSession when absent
  nextId,           \* the next id nanoid() hands out
  clock,            \* what new Date() reads
  dirty,            \* the effects whose dependencies changed and that have not run yet
  \* Home (page.tsx) and useChat
  pendingImages,    \* useState<string[]>: uploaded, not yet submitted
  cookieImages,     \* cookie membox_images: [set |-> BOOLEAN, value |-> encoded list]
  messages,         \* useChat messages of the chat on screen
  status,           \* useChat status: "ready", "busy" (submitted or streaming), "error"
  messageImages,    \* useState<Record<string, string[]>>: message id -> image URLs
  imagesToAssociate,            \* useState<string[]>
  lastProcessedUserMessageId,   \* useState<string | null>, NoMessage for null
  \* the chat route and the services it calls
  turns,            \* the requests POSTed so far, each with the locals of its handler
  \* the last operation that ran, its arguments, and currentSessionId before it
  op

userVars == <<currentUser, users, isUserLoaded, lsUsers, lsCurrentUser, cookieUser>>
storeVars == <<allSessions, currentSessionId, isLoaded, lsSessions, lsCurrentSession, nextId>>
viewVars == <<sessions, currentSession>>
pageVars == <<pendingImages, cookieImages, messages, status>>
imageVars == <<messageImages, imagesToAssociate, lastProcessedUserMessageId>>
routeVars == <<turns>>
chatVars == <<pageVars, imageVars, routeVars>>
vars == <<userVars, storeVars, viewVars, dirty, clock, chatVars, op>>

NoCookie == [set |-> FALSE, value |-> <<>>]
SetCookie(value) == [set |-> TRUE, value |-> CookieWrite(value)]

Op(name, arg, sid) ==
  [name |-> name, arg |-> arg, sid |-> sid,
   prevSid |-> currentSessionId, prevUser |-> currentUser.id]

\* ------------------------------------------------------------------ rendering
\* What a render exposes: the memoized list and the current session object.
Exposed ==
  /\ sessions' = VisibleSessions(allSessions', currentUser'.id)
  /\ currentSession' = FindSession(sessions', currentSessionId')

\* The effects, in the order the components declare them.
RevalidateFx == 1
SaveSessionsFx == 2
SaveCurrentFx == 3
SyncMessagesFx == 4
LoadMessagesFx == 5
InitialSessionFx == 6
AssociateImagesFx == 7

\* The effects whose dependency lists changed in this step.
Scheduled ==
  {e \in {RevalidateFx} :
      <<currentUser.id, isLoaded, allSessions, currentSessionId>>
        # <<currentUser'.id, isLoaded', allSessions', currentSessionId'>>}
  \cup {e \in {SaveSessionsFx} : <<allSessions, isLoaded>> # <<allSessions', isLoaded'>>}
  \cup {e \in {SaveCurrentFx} : <<currentSessionId, isLoaded>> # <<currentSessionId', isLoaded'>>}
  \cup {e \in {SyncMessagesFx} :
      <<messages, currentSessionId>> # <<messages', currentSessionId'>>}
  \cup {e \in {LoadMessagesFx} : currentSessionId # currentSessionId'}
  \cup {e \in {InitialSessionFx} :
      <<isLoaded, currentUser, Len(sessions)>> # <<isLoaded', currentUser', Len(sessions')>>}
  \cup {e \in {AssociateImagesFx} :
      <<messages, imagesToAssociate, lastProcessedUserMessageId>>
        # <<messages', imagesToAssociate', lastProcessedUserMessageId'>>}

\* React runs the pending effects before it handles the next event.
Quiescent == isUserLoaded /\ isLoaded /\ dirty = {}

\* the next effect to run
IsNextEffect(e) ==
  /\ isUserLoaded /\ isLoaded
  /\ e \in dirty
  /\ \A f \in dirty : e <= f

\* one chat for every session: the message list is kept when the id changes
ChatKeptAcrossSessions ==
  /\ UNCHANGED <<messages, status>>
  /\ UNCHANGED <<pendingImages, cookieImages, imageVars, routeVars>>

\* useChat({ id: currentSessionId || undefined }): the chat on screen is the
\* chat of the current session id; under another id the hook holds another
\* chat, which starts with no message and ready
ChatOfSession ==
  /\ messages' = IF currentSessionId' # currentSessionId THEN <<>> ELSE messages
  /\ status' = IF currentSessionId' # currentSessionId THEN "ready" ELSE status
  /\ UNCHANGED <<pendingImages, cookieImages, imageVars, routeVars>>

\* ------------------------------------------------------------------- useUser
UserInit ==
  /\ currentUser = NoUser
  /\ users = <<>>
  /\ isUserLoaded = FALSE
  /\ lsUsers = <<>>
  /\ lsCurrentUser = NoId
  /\ cookieUser = NoCookie

StoreInit ==
  /\ allSessions = <<>>
  /\ currentSessionId = NoSession
  /\ isLoaded = FALSE
  /\ sessions = <<>>
  /\ currentSession = NoSessionRec
  /\ lsSessions = <<>>
  /\ lsCurrentSession = NoSession
  /\ nextId = 1
  /\ dirty = {}

\* no message id (null), and the empty record of message images
NoMessage == 0
NoImages == [id \in {} |-> <<>>]

PageInit ==
  /\ pendingImages = <<>>
  /\ cookieImages = NoCookie
  /\ messages = <<>>
  /\ status = "ready"
  /\ messageImages = NoImages
  /\ imagesToAssociate = <<>>
  /\ lastProcessedUserMessageId = NoMessage

RouteInit ==
  /\ turns = <<>>

Init ==
  /\ UserInit
  /\ StoreInit
  /\ PageInit
  /\ RouteInit
  /\ clock = 0
  /\ op = [name |-> "init", arg |-> <<>>, sid |-> NoSession,
           prevSid |-> NoSession, prevUser |-> NoId]

\* the mount effect of useUser
LoadUser ==
  /\ ~isUserLoaded
  /\ isUserLoaded' = TRUE
  /\ IF lsUsers # <<>>
     THEN /\ users' = lsUsers
          /\ LET user == FindUserById(lsUsers, lsCurrentUser)
             IN  IF lsCurrentUser # NoId /\ user # NoUser
                 THEN /\ currentUser' = user
                      /\ cookieUser' = SetCookie(user.id)
                 ELSE UNCHANGED <<currentUser, cookieUser>>
     ELSE UNCHANGED <<users, currentUser, cookieUser>>
  /\ UNCHANGED <<lsUsers, lsCurrentUser>>
  /\ UNCHANGED storeVars /\ Exposed
  /\ UNCHANGED chatVars
  /\ dirty' = dirty \cup Scheduled
  /\ op' = Op("loadUser", <<>>, NoSession)
  /\ UNCHANGED clock

\* login(username)
Login(username) ==
  /\ isUserLoaded
  /\ LET normalizedName == Trim(username)
         existing == FindUserByName(users, normalizedName)
         user == IF existing # NoUser THEN existing
                 ELSE [id |-> UserIdOf(normalizedName), name |-> normalizedName]
     IN  /\ normalizedName # <<>>
         /\ IF existing = NoUser
            THEN /\ users' = Append(users, user)
                 /\ lsUsers' = Append(users, user)
            ELSE UNCHANGED <<users, lsUsers>>
         /\ lsCurrentUser' = user.id
         /\ currentUser' = user
         /\ cookieUser' = SetCookie(user.id)
  /\ UNCHANGED isUserLoaded
  /\ UNCHANGED storeVars /\ Exposed
  /\ UNCHANGED chatVars
  /\ dirty' = dirty \cup Scheduled
  /\ op' = Op("login", username, NoSession)
  /\ UNCHANGED clock

\* switchUser(userId)
SwitchUser(userId) ==
  /\ isUserLoaded
  /\ LET user == FindUserById(users, userId)
     IN  IF user # NoUser
         THEN /\ lsCurrentUser' = user.id
              /\ currentUser' = user
              /\ cookieUser' = SetCookie(user.id)
         ELSE UNCHANGED <<lsCurrentUser, currentUser, cookieUser>>
  /\ UNCHANGED <<users, lsUsers, isUserLoaded>>
  /\ UNCHANGED storeVars /\ Exposed
  /\ UNCHANGED chatVars
  /\ dirty' = dirty \cup Scheduled
  /\ op' = Op("switchUser", userId, NoSession)
  /\ UNCHANGED clock

\* a logout that also drops the sessions of the user who leaves
LogoutDroppingSessions ==
  /\ isUserLoaded
  /\ lsCurrentUser' = NoId
  /\ currentUser' = NoUser
  /\ cookieUser' = NoCookie
  /\ UNCHANGED <<users, lsUsers, isUserLoaded>>
  /\ allSessions' = SelectSeq(allSessions, LAMBDA s : s.userId # currentUser.id)
  /\ UNCHANGED <<currentSessionId, isLoaded, lsSessions, lsCurrentSession, nextId>>
  /\ Exposed
  /\ UNCHANGED chatVars
  /\ dirty' = dirty \cup Scheduled
  /\ op' = Op("logout", <<>>, NoSession)
  /\ UNCHANGED clock

\* logout()
Logout ==
  /\ isUserLoaded
  /\ lsCurrentUser' = NoId
  /\ currentUser' = NoUser
  /\ cookieUser' = NoCookie
  /\ UNCHANGED <<users, lsUsers, isUserLoaded>>
  /\ UNCHANGED storeVars /\ Exposed
  /\ UNCHANGED chatVars
  /\ dirty' = dirty \cup Scheduled
  /\ op' = Op("logout", <<>>, NoSession)
  /\ UNCHANGED clock

\* deleteUser(userId)
DeleteUser(userId) ==
  /\ isUserLoaded
  /\ LET newUsers == SelectSeq(users, LAMBDA u : u.id # userId)
     IN  /\ users' = newUsers
         /\ lsUsers' = newUsers
  /\ IF currentUser # NoUser /\ currentUser.id = userId
     THEN /\ lsCurrentUser' = NoId
          /\ currentUser' = NoUser
          /\ cookieUser' = NoCookie
     ELSE UNCHANGED <<lsCurrentUser, currentUser, cookieUser>>
  /\ UNCHANGED isUserLoaded
  /\ UNCHANGED storeVars /\ Exposed
  /\ UNCHANGED chatVars
  /\ dirty' = dirty \cup Scheduled
  /\ op' = Op("deleteUser", userId, NoSession)
  /\ UNCHANGED clock

\* a page reload: component state starts over, local storage and cookies stay
Reload ==
  /\ isUserLoaded
  /\ isLoaded => dirty = {}
  /\ currentUser' = NoUser
  /\ users' = <<>>
  /\ isUserLoaded' = FALSE
  /\ allSessions' = <<>>
  /\ currentSessionId' = NoSession
  /\ isLoaded' = FALSE
  /\ dirty' = {}
  /\ UNCHANGED <<lsUsers, lsCurrentUser, cookieUser, lsSessions, lsCurrentSession, nextId>>
  /\ Exposed
  /\ pendingImages' = <<>>
  /\ messages' = <<>>
  /\ status' = "ready"
  /\ messageImages' = NoImages
  /\ imagesToAssociate' = <<>>
  /\ lastProcessedUserMessageId' = NoMessage
  /\ UNCHANGED <<cookieImages, routeVars>>
  /\ op' = Op("reload", <<>>, NoSession)
  /\ UNCHANGED clock

\* ids a caller can name: those of the listed users
KnownUserIds == {users[i].id : i \in DOMAIN users}

\* the logins that keep the user list within cap records
WithinCap(username, cap) ==
  Len(users) < cap \/ UserIdOf(Trim(username)) \in KnownUserIds

UserNext ==
  \/ LoadUser
  \/ \E username \in Names : WithinCap(username, MaxListed) /\ Login(username)
  \/ \E userId \in KnownUserIds : SwitchUser(userId)
  \/ Logout
  \/ \E userId \in KnownUserIds : DeleteUser(userId)
  \/ Reload

SpecUser == Init /\ [][UserNext]_vars

\* the user store of one device, with names that hold inner blanks: "a a",
\* " a A ", "A  a" (two blanks), "a_a" and "aa"
DeviceNames ==
  { <<"a", " ", "a">>, <<" ", "a", " ", "A", " ">>, <<"A", " ", " ", "a">>,
    <<"a", "_", "a">>, <<"a", "a">> }

DeviceNext ==
  \/ LoadUser
  \/ \E username \in DeviceNames : Login(username)
  \/ \E userId \in KnownUserIds : SwitchUser(userId)
  \/ Logout
  \/ \E userId \in KnownUserIds : DeleteUser(userId)
  \/ Reload

SpecDevice == Init /\ [][DeviceNext]_vars

\* ------------------------------------------------------------ useChatSessions
\* the effects of useChatSessions as they run on mount: the load effect, then
\* the user-change effect and the two save effects with the state of the
\* first render (isLoaded false, no sessions, no current session)
LoadSessions ==
  /\ isUserLoaded /\ ~isLoaded
  /\ allSessions' = IF lsSessions # <<>> THEN DeserializeSessions(lsSessions) ELSE allSessions
  /\ currentSessionId' = IF lsCurrentSession # NoSession THEN lsCurrentSession ELSE currentSessionId
  /\ isLoaded' = TRUE
  /\ lsSessions' = SavedSessions(isLoaded, allSessions, lsSessions)
  /\ lsCurrentSession' = SavedCurrent(isLoaded, currentSessionId, lsCurrentSession)
  /\ UNCHANGED nextId
  /\ UNCHANGED userVars /\ Exposed
  /\ UNCHANGED chatVars
  /\ dirty' = dirty \cup Scheduled
  /\ op' = Op("loadSessions", <<>>, NoSession)
  /\ UNCHANGED clock

\* the effect "when user changes, verify current session belongs to user"
RevalidateEffect ==
  /\ IsNextEffect(RevalidateFx)
  /\ IF /\ currentUser.id # NoId
        /\ currentSessionId # NoSession
        /\ NeedsFallback(allSessions, currentSessionId, currentUser.id)
     THEN currentSessionId' = FirstId(VisibleSessions(allSessions, currentUser.id))
     ELSE UNCHANGED currentSessionId
  /\ UNCHANGED <<allSessions, isLoaded, lsSessions, lsCurrentSession, nextId>>
  /\ UNCHANGED userVars /\ Exposed
  /\ ChatOfSession
  /\ dirty' = (dirty \ {RevalidateFx}) \cup Scheduled
  /\ op' = Op("revalidate", <<>>, NoSession)
  /\ UNCHANGED clock

\* the effect "save sessions to localStorage whenever they change"
SaveSessionsEffect ==
  /\ IsNextEffect(SaveSessionsFx)
  /\ lsSessions' = SavedSessions(isLoaded, allSessions, lsSessions)
  /\ UNCHANGED <<allSessions, currentSessionId, isLoaded, lsCurrentSession, nextId>>
  /\ UNCHANGED userVars /\ Exposed
  /\ UNCHANGED chatVars
  /\ dirty' = (dirty \ {SaveSessionsFx}) \cup Scheduled
  /\ op' = Op("saveSessions", <<>>, NoSession)
  /\ UNCHANGED clock

\* the effect "save current session ID"
SaveCurrentEffect ==
  /\ IsNextEffect(SaveCurrentFx)
  /\ lsCurrentSession' = SavedCurrent(isLoaded, currentSessionId, lsCurrentSession)
  /\ UNCHANGED <<allSessions, currentSessionId, isLoaded, lsSessions, nextId>>
  /\ UNCHANGED userVars /\ Exposed
  /\ UNCHANGED chatVars
  /\ dirty' = (dirty \ {SaveCurrentFx}) \cup Scheduled
  /\ op' = Op("saveCurrent", <<>>, NoSession)
  /\ UNCHANGED clock

\* createSession(): the state change it makes for the user it was built for
CreateSessionFor(userId) ==
  /\ userId # NoId
  /\ nextId <= MaxSessions
  /\ allSessions' = PutFirst(NewSession(nextId, userId, clock), allSessions)
  /\ currentSessionId' = nextId
  /\ nextId' = nextId + 1
  /\ UNCHANGED <<isLoaded, lsSessions, lsCurrentSession>>

\* createSession(), called by whoever holds the hook
CreateSession ==
  /\ Quiescent
  /\ IF currentUser.id = NoId
     THEN /\ UNCHANGED storeVars
          /\ op' = Op("createSession", <<"null">>, NoSession)
     ELSE /\ CreateSessionFor(currentUser.id)
          /\ op' = Op("createSession", <<"session">>, nextId)
  /\ UNCHANGED userVars /\ Exposed
  /\ ChatOfSession
  /\ UNCHANGED clock
  /\ dirty' = dirty \cup Scheduled

\* newChat(), from the sidebar's "new chat"
NewChat ==
  /\ Quiescent
  /\ CreateSessionFor(currentUser.id)
  /\ UNCHANGED userVars /\ Exposed
  /\ ChatOfSession
  /\ dirty' = dirty \cup Scheduled
  /\ op' = Op("createSession", <<>>, nextId)
  /\ UNCHANGED clock

\* the page's effect "sync messages to session when they change"
SyncMessagesEffect ==
  /\ IsNextEffect(SyncMessagesFx)
  /\ IF currentSessionId # NoSession /\ Len(messages) > 0
     THEN allSessions' = [i \in DOMAIN allSessions |->
                            IF allSessions[i].id # currentSessionId THEN allSessions[i]
                            ELSE WithMessages(allSessions[i], messages, clock)]
     ELSE UNCHANGED allSessions
  /\ UNCHANGED <<currentSessionId, isLoaded, lsSessions, lsCurrentSession, nextId>>
  /\ UNCHANGED userVars /\ Exposed
  /\ UNCHANGED chatVars
  /\ dirty' = (dirty \ {SyncMessagesFx}) \cup Scheduled
  /\ op' = Op("syncMessages", <<>>, currentSessionId)
  /\ UNCHANGED clock

\* the page's effect "when switching sessions, load the messages"
LoadMessagesEffect ==
  /\ IsNextEffect(LoadMessagesFx)
  /\ messages' = IF currentSession.id # NoSession THEN currentSession.messages ELSE <<>>
  /\ UNCHANGED <<pendingImages, cookieImages, status, imageVars, routeVars>>
  /\ UNCHANGED <<userVars, storeVars>> /\ Exposed
  /\ dirty' = (dirty \ {LoadMessagesFx}) \cup Scheduled
  /\ op' = Op("loadMessages", <<>>, currentSessionId)
  /\ UNCHANGED clock

\* an initial-session effect that does not look at the number of sessions
InitialSessionEffectUnconditional ==
  /\ IsNextEffect(InitialSessionFx)
  /\ IF currentUser # NoUser
     THEN CreateSessionFor(currentUser.id)
     ELSE UNCHANGED storeVars
  /\ UNCHANGED userVars /\ Exposed
  /\ ChatOfSession
  /\ dirty' = (dirty \ {InitialSessionFx}) \cup Scheduled
  /\ op' = Op("initialSession", <<>>, NoSession)
  /\ UNCHANGED clock

\* the page's effect "create initial session if user is logged in and no sessions exist"
InitialSessionEffect ==
  /\ IsNextEffect(InitialSessionFx)
  /\ IF currentUser # NoUser /\ Len(sessions) = 0
     THEN CreateSessionFor(currentUser.id)
     ELSE UNCHANGED storeVars
  /\ UNCHANGED userVars /\ Exposed
  /\ ChatOfSession
  /\ dirty' = (dirty \ {InitialSessionFx}) \cup Scheduled
  /\ op' = Op("initialSession", <<>>, NoSession)
  /\ UNCHANGED clock

\* a delete that removes every session of the owner of the session named
DeleteSessionsOfOwner(sessionId) ==
  /\ Quiescent
  /\ allSessions' = SelectSeq(allSessions,
        LAMBDA s : s.userId # FindSession(allSessions, sessionId).userId)
  /\ IF currentSessionId = sessionId
     THEN currentSessionId' = RemainingFirstId(sessions, sessionId)
     ELSE UNCHANGED currentSessionId
  /\ UNCHANGED <<isLoaded, lsSessions, lsCurrentSession, nextId>>
  /\ UNCHANGED userVars /\ Exposed
  /\ ChatOfSession
  /\ dirty' = dirty \cup Scheduled
  /\ op' = Op("deleteSession", <<>>, sessionId)
  /\ UNCHANGED clock

\* deleteSession(sessionId)
DeleteSession(sessionId) ==
  /\ Quiescent
  /\ allSessions' = SelectSeq(allSessions, LAMBDA s : s.id # sessionId)
  /\ IF currentSessionId = sessionId
     THEN currentSessionId' = RemainingFirstId(sessions, sessionId)
     ELSE UNCHANGED currentSessionId
  /\ UNCHANGED <<isLoaded, lsSessions, lsCurrentSession, nextId>>
  /\ UNCHANGED userVars /\ Exposed
  /\ ChatOfSession
  /\ dirty' = dirty \cup Scheduled
  /\ op' = Op("deleteSession", <<>>, sessionId)
  /\ UNCHANGED clock

\* selectSession(sessionId)
SelectSession(sessionId) ==
  /\ Quiescent
  /\ currentSessionId' = sessionId
  /\ UNCHANGED <<allSessions, isLoaded, lsSessions, lsCurrentSession, nextId>>
  /\ UNCHANGED userVars /\ Exposed
  /\ ChatOfSession
  /\ dirty' = dirty \cup Scheduled
  /\ op' = Op("selectSession", <<>>, sessionId)
  /\ UNCHANGED clock

\* the user names typed into the page of the session store
LoginNames == {n \in Names : Len(n) = 1 /\ n # <<" ">>}

\* session ids a caller can name: every id handed out so far
KnownSessionIds == 1..(nextId - 1)

Next ==
  \/ LoadUser
  \/ LoadSessions
  \/ RevalidateEffect
  \/ SaveSessionsEffect
  \/ SaveCurrentEffect
  \/ SyncMessagesEffect
  \/ LoadMessagesEffect
  \/ InitialSessionEffect
  \/ Quiescent /\ \E username \in LoginNames : WithinCap(username, MaxUsers) /\ Login(username)
  \/ Quiescent /\ \E userId \in KnownUserIds : SwitchUser(userId)
  \/ Quiescent /\ Logout
  \/ NewChat
  \/ CreateSession
  \/ \E sessionId \in KnownSessionIds : DeleteSession(sessionId)
  \/ \E sessionId \in KnownSessionIds : SelectSession(sessionId)
  \/ Quiescent /\ Reload

Spec == Init /\ [][Next]_vars

\* ------------------------------------------------ the page, logged in or out
\* The page renders the login screen while nobody is logged in; the sidebar,
\* with the sessions of the current user, the user menu and its own login,
\* only for a logged in user.
VisibleSessionIds == {sessions[i].id : i \in DOMAIN sessions}

\* An event after which the initial-session effect may need a fresh id is
\* taken while one is left: a login, a new chat, the delete of the only session.
HasSpareId == nextId < MaxSessions

PageNext ==
  \/ LoadUser
  \/ LoadSessions
  \/ RevalidateEffect
  \/ SaveSessionsEffect
  \/ SaveCurrentEffect
  \/ SyncMessagesEffect
  \/ LoadMessagesEffect
  \/ InitialSessionEffect
  \/ Quiescent /\ HasSpareId
       /\ \E username \in LoginNames : WithinCap(username, MaxUsers) /\ Login(username)
  \/ Quiescent /\ currentUser # NoUser /\ \E userId \in KnownUserIds : SwitchUser(userId)
  \/ Quiescent /\ currentUser # NoUser /\ Logout
  \/ HasSpareId /\ NewChat
  \/ (HasSpareId \/ Len(sessions) > 1)
       /\ \E sessionId \in VisibleSessionIds : DeleteSession(sessionId)
  \/ \E sessionId \in VisibleSessionIds : SelectSession(sessionId)
  \/ Quiescent /\ Reload

\* React runs the mount effects and every scheduled effect.
PageFairness ==
  /\ WF_vars(LoadUser)
  /\ WF_vars(LoadSessions)
  /\ WF_vars(RevalidateEffect)
  /\ WF_vars(SaveSessionsEffect)
  /\ WF_vars(SaveCurrentEffect)
  /\ WF_vars(SyncMessagesEffect)
  /\ WF_vars(LoadMessagesEffect)
  /\ WF_vars(InitialSessionEffect)

SpecPage == Init /\ [][PageNext]_vars /\ PageFairness

\* ------------------------------------------------- the store's own operations
MaxClock == 1
MaxStored == 2

\* texts of 30, 31 and 51 characters: at and beyond the limits of title and preview
Text30 == "123456789012345678901234567890"
Text31 == Text30 \o "1"
Text51 == Text30 \o "123456789012345678901"

\* the message lists handed to updateSessionMessages
MessageLists ==
  {<<>>,
   <<[role |-> "user", text |-> Text30]>>,
   <<[role |-> "user", file |-> "f"]>>,
   <<[role |-> "assistant", text |-> "r1"], [role |-> "user", text |-> Text31]>>,
   <<[role |-> "user", text |-> "hi"], [role |-> "assistant", text |-> Text51]>>}

\* updateSessionMessages(sessionId, messages)
UpdateSessionMessages(sessionId, msgs) ==
  /\ Quiescent
  /\ allSessions' = [i \in DOMAIN allSessions |->
                       IF allSessions[i].id # sessionId THEN allSessions[i]
                       ELSE WithMessages(allSessions[i], msgs, clock)]
  /\ UNCHANGED <<currentSessionId, isLoaded, lsSessions, lsCurrentSession, nextId>>
  /\ UNCHANGED userVars /\ Exposed
  /\ UNCHANGED <<chatVars, clock>>
  /\ dirty' = dirty \cup Scheduled
  /\ op' = Op("updateSessionMessages", <<>>, sessionId)

\* time passes: new Date() reads a later value
Tick ==
  /\ clock < MaxClock
  /\ clock' = clock + 1
  /\ UNCHANGED <<userVars, storeVars, viewVars, dirty, chatVars>>
  /\ op' = Op("tick", <<>>, NoSession)

\* the user names typed into the page of the store's own operations
StoreNames == {n \in Names : n = <<"a">>}

StoreNext ==
  \/ LoadUser
  \/ LoadSessions
  \/ RevalidateEffect
  \/ SaveSessionsEffect
  \/ SaveCurrentEffect
  \/ SyncMessagesEffect
  \/ LoadMessagesEffect
  \/ InitialSessionEffect
  \/ Quiescent /\ \E username \in StoreNames : Login(username)
  \/ Quiescent /\ Logout
  \/ nextId <= MaxStored /\ CreateSession
  \/ \E sessionId \in KnownSessionIds, msgs \in MessageLists :
       UpdateSessionMessages(sessionId, msgs)
  \/ Tick

SpecStore == Init /\ [][StoreNext]_vars

\* ----------------------------------------------------------- chat: the values
\* the URLs the upload endpoint hands back
ImageUrls == {"u1"}
MaxPending == 1

\* what the textarea holds when the form is submitted
TypedTexts == {" ", "hi"}
\* the suggestion chips of the empty conversation
SUGGESTIONS == {"Remember I like coffee"}
\* the replies the model may stream
Replies == {"r1"}

\* !text.trim()
IsBlankText(text) == text = " "

DefaultUserId == <<"default_user">>

\* encodeURIComponent(JSON.stringify(urls)): the tokens of a JSON array; none
\* of them is a ";" once URI-encoded
EncodeImages(urls) == <<"[">> \o urls \o <<"]">>

\* JSON.parse(decodeURIComponent(value)), [] when it throws
DecodeImages(value) ==
  IF Len(value) >= 2 /\ value[1] = "[" /\ value[Len(value)] = "]"
  THEN SubSeq(value, 2, Len(value) - 1)
  ELSE <<>>

\* cookies.match(/membox_user_id=([^;]+)/)?.[1] ?? 'default_user'
EffectiveUserId(cookie) ==
  IF cookie.set /\ cookie.value # <<>> THEN cookie.value ELSE DefaultUserId

\* the image URLs the handler reads from the membox_images cookie
ImageUrlsFromCookie(cookie) ==
  IF cookie.set /\ cookie.value # <<>> THEN DecodeImages(cookie.value) ELSE <<>>

\* JSON.parse gives null for the text "null": nothing is thrown inside the try,
\* and `imageUrlsFromCookie.length` then reads a property of null
ReadsLengthOfNull(cookie) == cookie.set /\ cookie.value = <<"null">>

\* new URL(url) takes an absolute URL, as the upload endpoint returns them, and
\* throws a TypeError for any other string
IsAbsoluteUrl(url) == url \in ImageUrls

\* the URLs handed to `new URL(url)` while the model messages are built
UrlsToParse(body, lastMessageImages) ==
  IF body # <<>> /\ body[Len(body)].role = "user" THEN lastMessageImages ELSE <<>>

\* messages.at(-1)?.parts?.find((p) => p.type === 'text')?.text ?? ''
LastMessageText(body) == IF body = <<>> THEN "" ELSE body[Len(body)].text

\* the answers of /api/memory/search: the request throws, a non-success status,
\* a body that is not JSON, or a success with a profile and memories
SearchOutcomes ==
  [kind : {"throw", "badbody"}, profile_content : {""}, results : {<<>>}]
  \cup [kind : {"notok"}, profile_content : {"p"}, results : {<<"m1">>}]
  \cup {[kind |-> "ok", profile_content |-> "", results |-> <<>>],
        [kind |-> "ok", profile_content |-> "p", results |-> <<>>],
        [kind |-> "ok", profile_content |-> "", results |-> <<"m1", "m2">>],
        [kind |-> "ok", profile_content |-> "p", results |-> <<"m1">>]}

\* a test that reads the body whatever the status
BodyIsReadIgnoringStatus(outcome) == outcome.kind \in {"ok", "notok"}

\* the body is read when fetch resolved, searchRes.ok holds and json() parses
BodyIsRead(outcome) == outcome.kind = "ok"

RECURSIVE MemoryLines(_)
MemoryLines(results) ==
  IF results = <<>> THEN <<>>
  ELSE <<"\n- ", Head(results)>> \o MemoryLines(Tail(results))

\* a context that always writes both sections, empty or not
MemoryContextWithPlaceholders(outcome) ==
  IF ~BodyIsRead(outcome) THEN <<>>
  ELSE <<"\nUser Profile: ", outcome.profile_content>>
       \o <<"\n\nRelated Memories:">> \o MemoryLines(outcome.results)

\* memoryContext as the search block builds it
MemoryContext(outcome) ==
  IF ~BodyIsRead(outcome) THEN <<>>
  ELSE (IF outcome.profile_content # "" THEN <<"\nUser Profile: ", outcome.profile_content>> ELSE <<>>)
       \o (IF Len(outcome.results) > 0
           THEN <<"\n\nRelated Memories:">> \o MemoryLines(outcome.results)
           ELSE <<>>)

ContextHeading == "Here is background information related to the current conversation:"

\* the systemPrompt template
SystemPrompt(memoryContext) ==
  <<"You are MemBox ...">>
  \o (IF memoryContext # <<>> THEN <<ContextHeading>> \o memoryContext ELSE <<>>)
  \o <<"Please provide personalized, memory-aware answers ...">>

\* hasImages ? 'qwen-vl-plus' : 'qwen-plus'
ModelName(hasImages) == IF hasImages THEN "qwen-vl-plus" ELSE "qwen-plus"

\* modelMessages: images go with the last message when it is a user message
ModelMessages(body, lastMessageImages) ==
  [i \in DOMAIN body |->
     LET imageUrls == IF i = Len(body) /\ body[i].role = "user"
                      THEN lastMessageImages ELSE <<>>
     IN  [role |-> body[i].role,
          text |-> IF body[i].role = "user" /\ imageUrls # <<>> /\ body[i].text = ""
                   THEN "Please describe these images" ELSE body[i].text,
          images |-> imageUrls]]

\* the answers of /api/memory/add
AddOutcomes == {"ok", "http500", "neterr"}

\* a save without the try/catch: a rejected fetch escapes
OnlyResolvedFetchIsQuiet(outcome) == outcome # "neterr"

\* try { await fetch(add) } catch {}: nothing a save does escapes onFinish
SaveIsQuiet(outcome) == TRUE

\* conversationToSave and the body of the add request
AddRequest(lastMessageText, text, effectiveUserId) ==
  [messages |-> <<[role |-> "user",
                   content |-> IF lastMessageText = "" THEN "User shared images"
                               ELSE lastMessageText],
                  [role |-> "assistant", content |-> text]>>,
   user_id |-> effectiveUserId,
   fields |-> {"messages", "user_id"}]

\* the body of the search request
SearchRequest(lastMessageText, effectiveUserId) ==
  [query |-> lastMessageText, user_id |-> effectiveUserId, limit |-> 5]

\* a handler that saves as soon as the reply starts
ReplyHasStarted(r) == r.pc \in {"streaming", "finished"}

\* onFinish runs when the streamed reply is complete
ReplyIsComplete(r) == r.pc = "finished"

\* a save that is tried again until the add endpoint accepts it
AfterSaveRetrying(outcome) == IF outcome = "ok" THEN "done" ELSE "finished"

\* onFinish returns after its one fetch, whatever the answer
AfterSave(outcome) == "done"

\* the locals of a handler that have no value yet, or none any more
NoOutcome == [kind |-> "none", profile_content |-> "", results |-> <<>>]
NoRequest == [none |-> TRUE]

\* ------------------------------------------------------------ chat: the page
\* The chat specifications handle requests one at a time; the handlers of two
\* requests share no state.
NoRequestInFlight == \A t \in DOMAIN turns : turns[t].pc \in {"done", "failed"}

\* the ids generateId gives the messages of turn t: no two messages share one
UserMessageId(t) == 2 * t - 1
AssistantMessageId(t) == 2 * t

\* the user message sendMessage({ text }) makes
UserMessage(text) ==
  [id |-> UserMessageId(Len(turns) + 1), role |-> "user", text |-> text]

\* the body of the image association effect, on the page state st it reads
AssociateImages(msgs, st) ==
  LET userMessages == SelectSeq(msgs, LAMBDA m : m.role = "user")
      lastUserMessage == userMessages[Len(userMessages)]
  IN  IF Len(st.imagesToAssociate) = 0 THEN st
      ELSE IF Len(userMessages) = 0 THEN st
      ELSE IF lastUserMessage.id = st.lastProcessedUserMessageId THEN st
      ELSE [messageImages |->
              [id \in DOMAIN st.messageImages \cup {lastUserMessage.id} |->
                 IF id = lastUserMessage.id THEN st.imagesToAssociate
                 ELSE st.messageImages[id]],
            imagesToAssociate |-> <<>>,
            lastProcessedUserMessageId |-> lastUserMessage.id]

\* the effect "associate images with the latest user message after it's sent"
AssociateImagesEffect ==
  /\ IsNextEffect(AssociateImagesFx)
  /\ LET st == AssociateImages(messages,
                  [messageImages |-> messageImages,
                   imagesToAssociate |-> imagesToAssociate,
                   lastProcessedUserMessageId |-> lastProcessedUserMessageId])
     IN  /\ messageImages' = st.messageImages
         /\ imagesToAssociate' = st.imagesToAssociate
         /\ lastProcessedUserMessageId' = st.lastProcessedUserMessageId
  /\ UNCHANGED <<pageVars, routeVars>>
  /\ UNCHANGED <<userVars, storeVars>> /\ Exposed
  /\ dirty' = (dirty \ {AssociateImagesFx}) \cup Scheduled
  /\ op' = Op("associateImages", <<>>, NoSession)
  /\ UNCHANGED clock

\* sendMessage({ text }) from the chat on screen: the request it POSTs
NewTurn(text, images) ==
  [pc |-> "sent",
   chat |-> currentSessionId',
   sentText |-> text,
   sentImages |-> images,
   actingUser |-> currentUser.id,
   body |-> Append(messages, UserMessage(text)),
   hdrUser |-> cookieUser',
   hdrImages |-> cookieImages',
   effectiveUserId |-> <<>>,
   lastMessageText |-> "",
   lastMessageImages |-> <<>>,
   hasImages |-> FALSE,
   searchCalls |-> 0,
   searchRequest |-> NoRequest,
   searchOutcome |-> NoOutcome,
   memoryContext |-> <<>>,
   systemPrompt |-> <<>>,
   modelCalls |-> 0,
   modelName |-> "",
   modelMessages |-> <<>>,
   text |-> "",
   addCalls |-> 0,
   addRequest |-> NoRequest,
   threw |-> FALSE]

\* "create a session if none exists", then the user-id cookie
EnsureSessionAndUserCookie ==
  /\ IF currentSessionId = NoSession
     THEN CreateSessionFor(currentUser.id)
     ELSE UNCHANGED storeVars
  /\ cookieUser' = SetCookie(IF currentUser # NoUser THEN currentUser.id ELSE DefaultUserId)
  /\ UNCHANGED <<currentUser, users, isUserLoaded, lsUsers, lsCurrentUser>>

\* handleImageUpload, the upload having answered with one URL
UploadImage(url) ==
  /\ Quiescent /\ currentUser # NoUser
  /\ Len(pendingImages) < MaxPending
  /\ pendingImages' = Append(pendingImages, url)
  /\ UNCHANGED <<cookieImages, messages, status, imageVars, routeVars>>
  /\ UNCHANGED <<userVars, storeVars>> /\ Exposed
  /\ dirty' = dirty \cup Scheduled
  /\ op' = Op("pendingImages", <<>>, NoSession)
  /\ UNCHANGED clock

\* removePendingImage(index)
RemovePendingImage(index) ==
  /\ Quiescent /\ currentUser # NoUser
  /\ pendingImages' = [i \in 1..(Len(pendingImages) - 1) |->
                         IF i < index THEN pendingImages[i] ELSE pendingImages[i + 1]]
  /\ UNCHANGED <<cookieImages, messages, status, imageVars, routeVars>>
  /\ UNCHANGED <<userVars, storeVars>> /\ Exposed
  /\ dirty' = dirty \cup Scheduled
  /\ op' = Op("pendingImages", <<>>, NoSession)
  /\ UNCHANGED clock

\* the form's submit: PromptInput.handleSubmit, which hands a non-blank text
\* to Home.handleSubmit. sendMessage is asynchronous: the render that follows
\* the handler's state updates, and with it the association effect, comes
\* before the new message is in the message list (effectFirst) or after it.
SubmitForm(text) ==
  /\ Quiescent /\ currentUser # NoUser
  /\ status # "busy"
  /\ IF IsBlankText(text)
     THEN UNCHANGED <<userVars, storeVars, chatVars, op, clock>>
     ELSE /\ EnsureSessionAndUserCookie
          /\ IF Len(pendingImages) > 0
             THEN cookieImages' = SetCookie(EncodeImages(pendingImages))
             ELSE cookieImages' = NoCookie
          /\ pendingImages' = <<>>
          /\ \E effectFirst \in BOOLEAN :
               LET set == [messageImages |-> messageImages,
                           imagesToAssociate |->
                              IF Len(pendingImages) > 0 THEN pendingImages
                              ELSE imagesToAssociate,
                           lastProcessedUserMessageId |-> lastProcessedUserMessageId]
                   st == IF effectFirst THEN AssociateImages(messages, set) ELSE set
               IN  /\ messageImages' = st.messageImages
                   /\ imagesToAssociate' = st.imagesToAssociate
                   /\ lastProcessedUserMessageId' = st.lastProcessedUserMessageId
          /\ messages' = Append(messages, UserMessage(text))
          /\ status' = "busy"
          /\ turns' = Append(turns, NewTurn(text, pendingImages))
          /\ op' = Op("submit", <<>>, Len(turns) + 1)
          /\ UNCHANGED clock
  /\ Exposed
  /\ dirty' = dirty \cup Scheduled

\* handleSuggestionClick(suggestion)
HandleSuggestionClick(suggestion) ==
  /\ Quiescent /\ currentUser # NoUser
  /\ messages = <<>>
  /\ status # "busy"
  /\ NoRequestInFlight
  /\ EnsureSessionAndUserCookie
  /\ UNCHANGED <<pendingImages, cookieImages, imageVars>>
  /\ messages' = Append(messages, UserMessage(suggestion))
  /\ status' = "busy"
  /\ turns' = Append(turns, NewTurn(suggestion, <<>>))
  /\ Exposed
  /\ dirty' = dirty \cup Scheduled
  /\ op' = Op("suggestion", <<>>, Len(turns) + 1)
  /\ UNCHANGED clock

\* handleNewChat: newChat() and setMessages([]); the chat of the new session
\* starts ready
HandleNewChat ==
  /\ Quiescent /\ currentUser # NoUser
  /\ CreateSessionFor(currentUser.id)
  /\ messages' = <<>>
  /\ status' = "ready"
  /\ UNCHANGED <<pendingImages, cookieImages, imageVars, routeVars>>
  /\ UNCHANGED userVars /\ Exposed
  /\ dirty' = dirty \cup Scheduled
  /\ op' = Op("newChat", <<>>, nextId)
  /\ UNCHANGED clock

\* the membox_images cookie reaches its max-age of 60 seconds
CookieImagesExpire ==
  /\ cookieImages.set
  /\ cookieImages' = NoCookie
  /\ UNCHANGED <<pendingImages, messages, status, imageVars, routeVars>>
  /\ UNCHANGED <<userVars, storeVars>> /\ Exposed
  /\ dirty' = dirty \cup Scheduled
  /\ op' = Op("imagesCookieExpired", <<>>, NoSession)
  /\ UNCHANGED clock

\* ----------------------------------------------------------- chat: the route
\* a step of the handler of request t: only its locals change; the page's
\* effects have run by the time the network delivers anything
HandlerStep(t, name) ==
  /\ dirty = {}
  /\ UNCHANGED <<userVars, storeVars, pendingImages, cookieImages, imageVars>> /\ Exposed
  /\ dirty' = dirty \cup Scheduled
  /\ op' = Op(name, <<>>, t)
  /\ UNCHANGED clock

\* the chat that sent request t is still the one on screen
OnScreen(t) == turns[t].chat = currentSessionId /\ status = "busy"

\* the locals onFinish does not read are out of reach once streamText has them
AfterModelCall(r) ==
  [r EXCEPT !.body = <<>>, !.hdrUser = NoCookie, !.hdrImages = NoCookie,
            !.searchRequest = NoRequest, !.searchOutcome = NoOutcome,
            !.memoryContext = <<>>, !.systemPrompt = <<>>, !.modelMessages = <<>>]

\* the handler has returned: none of its locals is in reach any more
Returned(r) ==
  [AfterModelCall(r) EXCEPT !.chat = NoSession, !.sentText = "", !.sentImages = <<>>,
                            !.actingUser = <<>>, !.effectiveUserId = <<>>,
                            !.lastMessageText = "", !.lastMessageImages = <<>>,
                            !.hasImages = FALSE, !.modelName = "", !.text = "",
                            !.addRequest = NoRequest]

\* an exception leaves the handler: the request is answered with an error
HandlerThrows(t) ==
  /\ turns' = [turns EXCEPT ![t] = [Returned(turns[t]) EXCEPT !.pc = "failed", !.threw = TRUE]]
  /\ status' = IF OnScreen(t) THEN "error" ELSE status

\* POST, up to the await of the memory search
Post(t) ==
  /\ turns[t].pc = "sent"
  /\ LET r == turns[t]
         effectiveUserId == EffectiveUserId(r.hdrUser)
         lastMessageText == LastMessageText(r.body)
         imageUrlsFromCookie == ImageUrlsFromCookie(r.hdrImages)
         attachmentImages == <<>>
         lastMessageImages == IF Len(imageUrlsFromCookie) > 0
                              THEN imageUrlsFromCookie ELSE attachmentImages
     IN  IF ReadsLengthOfNull(r.hdrImages)
         THEN HandlerThrows(t)
         ELSE /\ turns' = [turns EXCEPT ![t] =
                     [r EXCEPT !.pc = "searching",
                               !.effectiveUserId = effectiveUserId,
                               !.lastMessageText = lastMessageText,
                               !.lastMessageImages = lastMessageImages,
                               !.hasImages = Len(lastMessageImages) > 0,
                               !.searchCalls = r.searchCalls + 1,
                               !.searchRequest =
                                  SearchRequest(lastMessageText, effectiveUserId)]]
              /\ UNCHANGED status
  /\ UNCHANGED messages
  /\ HandlerStep(t, "post")

\* the memory search settles: the try block runs to its end or the catch runs
SearchSettles(t, outcome) ==
  /\ turns[t].pc = "searching"
  /\ turns' = [turns EXCEPT ![t] =
                 [turns[t] EXCEPT !.pc = "searched",
                                  !.searchOutcome = outcome,
                                  !.memoryContext = MemoryContext(outcome)]]
  /\ UNCHANGED <<messages, status>>
  /\ HandlerStep(t, "searchSettles")

\* "2. Build system prompt"
BuildPrompt(t) ==
  /\ turns[t].pc = "searched"
  /\ turns' = [turns EXCEPT ![t] =
                 [turns[t] EXCEPT !.pc = "prompt_built",
                                  !.systemPrompt = SystemPrompt(turns[t].memoryContext)]]
  /\ UNCHANGED <<messages, status>>
  /\ HandlerStep(t, "buildPrompt")

\* "3. Stream response": the model name, the model messages, streamText(...)
StartModel(t) ==
  /\ turns[t].pc = "prompt_built"
  /\ LET urls == UrlsToParse(turns[t].body, turns[t].lastMessageImages)
     IN  IF \E i \in DOMAIN urls : ~IsAbsoluteUrl(urls[i])
         THEN HandlerThrows(t)
         ELSE /\ turns' = [turns EXCEPT ![t] =
                 [turns[t] EXCEPT !.pc = "streaming",
                                  !.modelCalls = turns[t].modelCalls + 1,
                                  !.modelName = ModelName(turns[t].hasImages),
                                  !.modelMessages =
                                     ModelMessages(turns[t].body, turns[t].lastMessageImages)]]
              /\ UNCHANGED status
  /\ UNCHANGED messages
  /\ HandlerStep(t, "startModel")

\* the model's stream completes with the reply text; the client has it all
StreamCompletes(t, text) ==
  /\ turns[t].pc = "streaming"
  /\ turns' = [turns EXCEPT ![t] =
                 [AfterModelCall(turns[t]) EXCEPT !.pc = "finished", !.text = text]]
  /\ IF OnScreen(t)
     THEN /\ messages' = Append(messages, [id |-> AssistantMessageId(t),
                                           role |-> "assistant", text |-> text])
          /\ status' = "ready"
     ELSE UNCHANGED <<messages, status>>
  /\ HandlerStep(t, "streamCompletes")

\* the model call fails: the failure the user is shown
StreamFails(t) ==
  /\ turns[t].pc = "streaming"
  /\ turns' = [turns EXCEPT ![t] = [Returned(turns[t]) EXCEPT !.pc = "failed"]]
  /\ IF OnScreen(t) THEN status' = "error" ELSE UNCHANGED status
  /\ UNCHANGED messages
  /\ HandlerStep(t, "streamFails")

\* an onFinish that takes the user id from the cookie the browser holds now
OnFinishReadingTheBrowserCookie(t) ==
  /\ ReplyIsComplete(turns[t])
  /\ turns' = [turns EXCEPT ![t] =
                 [turns[t] EXCEPT !.pc = "saving",
                                  !.addCalls = turns[t].addCalls + 1,
                                  !.addRequest =
                                     AddRequest(turns[t].lastMessageText, turns[t].text,
                                                EffectiveUserId(cookieUser))]]
  /\ UNCHANGED <<messages, status>>
  /\ HandlerStep(t, "onFinish")

\* onFinish({ text }), up to the await of the add request
OnFinish(t) ==
  /\ ReplyIsComplete(turns[t])
  /\ turns' = [turns EXCEPT ![t] =
                 [turns[t] EXCEPT !.pc = "saving",
                                  !.addCalls = turns[t].addCalls + 1,
                                  !.addRequest =
                                     AddRequest(turns[t].lastMessageText, turns[t].text,
                                                turns[t].effectiveUserId)]]
  /\ UNCHANGED <<messages, status>>
  /\ HandlerStep(t, "onFinish")

\* the add request settles; onFinish returns
SaveSettles(t, outcome) ==
  /\ turns[t].pc = "saving"
  /\ turns' = [turns EXCEPT ![t] =
                 [Returned(turns[t]) EXCEPT !.pc = AfterSave(outcome),
                                  !.threw = ~SaveIsQuiet(outcome)]]
  /\ IF ~SaveIsQuiet(outcome) /\ turns[t].chat = currentSessionId
     THEN status' = "error"
     ELSE UNCHANGED status
  /\ UNCHANGED messages
  /\ UNCHANGED <<userVars, storeVars, pendingImages, cookieImages, imageVars>> /\ Exposed
  /\ dirty = {} /\ dirty' = dirty \cup Scheduled
  /\ op' = Op("saveSettles", <<outcome>>, t)
  /\ UNCHANGED clock

\* the user names typed into the login modal the page shows while no user is
\* logged in
ChatNames == {n \in Names : n \in {<<"A">>, <<"A", ";">>}}

TurnIds == DOMAIN turns

ChatNext ==
  \/ LoadUser
  \/ LoadSessions
  \/ RevalidateEffect
  \/ SaveSessionsEffect
  \/ SaveCurrentEffect
  \/ SyncMessagesEffect
  \/ LoadMessagesEffect
  \/ InitialSessionEffect
  \/ AssociateImagesEffect
  \/ Quiescent /\ currentUser = NoUser /\ \E username \in ChatNames : Login(username)
  \/ \E url \in ImageUrls : UploadImage(url)
  \/ \E index \in DOMAIN pendingImages : RemovePendingImage(index)
  \/ NoRequestInFlight /\ Len(turns) < MaxTurns /\ \E text \in TypedTexts : SubmitForm(text)
  \/ Len(turns) < MaxTurns /\ \E suggestion \in SUGGESTIONS : HandleSuggestionClick(suggestion)
  \/ HandleNewChat
  \/ CookieImagesExpire
  \/ \E t \in TurnIds : Post(t)
  \/ \E t \in TurnIds, outcome \in SearchOutcomes : SearchSettles(t, outcome)
  \/ \E t \in TurnIds : BuildPrompt(t)
  \/ \E t \in TurnIds : StartModel(t)
  \/ \E t \in TurnIds, text \in Replies : StreamCompletes(t, text)
  \/ \E t \in TurnIds : StreamFails(t)
  \/ \E t \in TurnIds : OnFinish(t)
  \/ \E t \in TurnIds, outcome \in AddOutcomes : SaveSettles(t, outcome)

SpecChat == Init /\ [][ChatNext]_vars

\* the store across page reloads: sessions are made, filled, selected and
\* deleted, time passes, and the page is loaded again from local storage
SavedMessageLists ==
  {<<[role |-> "user", text |-> "hi"], [role |-> "assistant", text |-> "r1"]>>}

PersistNext ==
  \/ LoadUser
  \/ LoadSessions
  \/ RevalidateEffect
  \/ SaveSessionsEffect
  \/ SaveCurrentEffect
  \/ SyncMessagesEffect
  \/ LoadMessagesEffect
  \/ InitialSessionEffect
  \/ AssociateImagesEffect
  \/ Quiescent /\ \E username \in StoreNames : Login(username)
  \/ nextId <= MaxStored /\ CreateSession
  \/ \E sessionId \in KnownSessionIds, msgs \in SavedMessageLists :
       UpdateSessionMessages(sessionId, msgs)
  \/ \E sessionId \in KnownSessionIds : DeleteSession(sessionId)
  \/ \E sessionId \in KnownSessionIds : SelectSession(sessionId)
  \/ Tick
  \/ Quiescent /\ Reload

SpecPersist == Init /\ [][PersistNext]_vars

\* ------------------------------------------------ the page, between sessions
\* the longest conversation of the page between sessions
MaxMessages == 2

\* what is typed, and answered, in the chat of a session names the session
SessionTexts == <<"in 1", "in 2", "in 3", "in 4", "in 5">>

\* the chat on screen gets one more message: the one sendMessage adds, or the
\* reply the model streamed, which may arrive after a logout
ChatAppends(role) ==
  /\ Quiescent
  /\ currentUser # NoUser \/ role = "assistant"
  /\ role = (IF Len(messages) % 2 = 0 THEN "user" ELSE "assistant")
  /\ currentSessionId \in DOMAIN SessionTexts
  /\ Len(messages) < MaxMessages
  /\ messages' = Append(messages, [id |-> Len(messages) + 1, role |-> role,
                                    text |-> SessionTexts[currentSessionId]])
  /\ UNCHANGED <<pendingImages, cookieImages, status, imageVars, routeVars>>
  /\ UNCHANGED <<userVars, storeVars>> /\ Exposed
  /\ dirty' = dirty \cup Scheduled
  /\ op' = Op("chatAppends", <<>>, currentSessionId)
  /\ UNCHANGED clock

\* the user names typed into the login of the page between sessions
SwitchNames == {n \in Names : n \in {<<"a">>, <<"A", "a">>}}

SwitchNext ==
  \/ LoadUser
  \/ LoadSessions
  \/ RevalidateEffect
  \/ SaveSessionsEffect
  \/ SaveCurrentEffect
  \/ SyncMessagesEffect
  \/ LoadMessagesEffect
  \/ InitialSessionEffect
  \/ AssociateImagesEffect
  \/ Quiescent /\ HasSpareId /\ \E username \in SwitchNames : Login(username)
  \/ Quiescent /\ currentUser # NoUser /\ \E userId \in KnownUserIds : SwitchUser(userId)
  \/ Quiescent /\ currentUser # NoUser /\ Logout
  \/ HasSpareId /\ HandleNewChat
  \/ (HasSpareId \/ Len(sessions) > 1) /\ currentUser # NoUser
       /\ \E sessionId \in VisibleSessionIds : DeleteSession(sessionId)
  \/ currentUser # NoUser /\ \E sessionId \in VisibleSessionIds : SelectSession(sessionId)
  \/ \E role \in {"user", "assistant"} : ChatAppends(role)

SpecSwitch == Init /\ [][SwitchNext]_vars

\* the chat over more turns: a turn after a turn
MaxExchanges == 2

ConversationNext ==
  \/ LoadUser
  \/ LoadSessions
  \/ RevalidateEffect
  \/ SaveSessionsEffect
  \/ SaveCurrentEffect
  \/ SyncMessagesEffect
  \/ LoadMessagesEffect
  \/ InitialSessionEffect
  \/ AssociateImagesEffect
  \/ Quiescent /\ currentUser = NoUser /\ \E username \in ChatNames : Login(username)
  \/ \E url \in ImageUrls : UploadImage(url)
  \/ \E index \in DOMAIN pendingImages : RemovePendingImage(index)
  \/ NoRequestInFlight /\ Len(turns) < MaxExchanges /\ \E text \in TypedTexts : SubmitForm(text)
  \/ Len(turns) < MaxExchanges /\ \E suggestion \in SUGGESTIONS : HandleSuggestionClick(suggestion)
  \/ HandleNewChat
  \/ CookieImagesExpire
  \/ \E t \in TurnIds : Post(t)
  \/ \E t \in TurnIds, outcome \in SearchOutcomes : SearchSettles(t, outcome)
  \/ \E t \in TurnIds : BuildPrompt(t)
  \/ \E t \in TurnIds : StartModel(t)
  \/ \E t \in TurnIds, text \in Replies : StreamCompletes(t, text)
  \/ \E t \in TurnIds : StreamFails(t)
  \/ \E t \in TurnIds : OnFinish(t)
  \/ \E t \in TurnIds, outcome \in AddOutcomes : SaveSettles(t, outcome)

SpecConversation == Init /\ [][ConversationNext]_vars

\* ------------------------------------------ requests with any images cookie
\* Values of the membox_images cookie: the list the page writes, a text that
\* is no URI encoding, the JSON texts null and 7, and a list whose one string
\* is no absolute URL.
CookieValues ==
  {<<"[", "u1", "]">>, <<"%">>, <<"null">>, <<"7">>, <<"[", "x", "]">>}

\* document.cookie holds a membox_images the page did not write: the cookie
\* is the origin's, and the route reads what the browser sends
ImagesCookieIs(value) ==
  /\ Quiescent
  /\ cookieImages' = [set |-> TRUE, value |-> value]
  /\ UNCHANGED <<pendingImages, messages, status, imageVars, routeVars>>
  /\ UNCHANGED <<userVars, storeVars>> /\ Exposed
  /\ dirty' = dirty \cup Scheduled
  /\ op' = Op("imagesCookie", value, NoSession)
  /\ UNCHANGED clock

RequestNext ==
  \/ LoadUser
  \/ LoadSessions
  \/ RevalidateEffect
  \/ SaveSessionsEffect
  \/ SaveCurrentEffect
  \/ SyncMessagesEffect
  \/ LoadMessagesEffect
  \/ InitialSessionEffect
  \/ AssociateImagesEffect
  \/ Quiescent /\ currentUser = NoUser /\ \E username \in StoreNames : Login(username)
  \/ \E value \in CookieValues : ImagesCookieIs(value)
  \/ Len(turns) < MaxTurns /\ \E suggestion \in SUGGESTIONS : HandleSuggestionClick(suggestion)
  \/ \E t \in TurnIds : Post(t)
  \/ \E t \in TurnIds : SearchSettles(t, [kind |-> "ok", profile_content |-> "", results |-> <<>>])
  \/ \E t \in TurnIds : BuildPrompt(t)
  \/ \E t \in TurnIds : StartModel(t)
  \/ \E t \in TurnIds, text \in Replies : StreamCompletes(t, text)
  \/ \E t \in TurnIds : StreamFails(t)
  \/ \E t \in TurnIds : OnFinish(t)
  \/ \E t \in TurnIds : SaveSettles(t, "ok")

SpecRequest == Init /\ [][RequestNext]_vars

\* ------------------------------------------- turns while the user changes
\* the user names typed into the login modal while turns are under way: ids
\* "a" and ";", the second of which leaves the cookie without a value
WriteBackNames == {n \in Names : n \in {<<"a">>, <<";">>}}

\* the chat on screen is not waiting for the reply of an earlier turn
NoReplyAwaited ==
  \A t \in DOMAIN turns :
    turns[t].chat # currentSessionId
      \/ turns[t].pc \in {"finished", "saving", "done", "failed"}

WriteBackNext ==
  \/ LoadUser
  \/ LoadSessions
  \/ RevalidateEffect
  \/ SaveSessionsEffect
  \/ SaveCurrentEffect
  \/ SyncMessagesEffect
  \/ LoadMessagesEffect
  \/ InitialSessionEffect
  \/ AssociateImagesEffect
  \/ Quiescent /\ HasSpareId /\ currentUser = NoUser
       /\ \E username \in WriteBackNames : Login(username)
  \/ Quiescent /\ currentUser # NoUser /\ \E userId \in KnownUserIds : SwitchUser(userId)
  \/ Quiescent /\ currentUser # NoUser /\ Logout
  \/ NoReplyAwaited /\ Len(turns) < MaxExchanges /\ SubmitForm("hi")
  \/ \E t \in TurnIds : Post(t)
  \/ \E t \in TurnIds : SearchSettles(t, [kind |-> "ok", profile_content |-> "", results |-> <<>>])
  \/ \E t \in TurnIds : BuildPrompt(t)
  \/ \E t \in TurnIds : StartModel(t)
  \/ \E t \in TurnIds, text \in Replies : StreamCompletes(t, text)
  \/ \E t \in TurnIds : OnFinish(t)
  \/ \E t \in TurnIds : SaveSettles(t, "ok")

SpecWriteBack == Init /\ [][WriteBackNext]_vars

\* ===================================================================== claims
\* the positions of the stored sessions a user owns
OwnedPositions(all, userId) ==
  {i \in DOMAIN all : userId # NoId /\ all[i].userId = userId}

\* the id of the first stored session the user owns, NoSession when there is none
FirstOwnedId(all, userId) ==
  LET owned == OwnedPositions(all, userId)
  IN  IF owned = {} THEN NoSession
      ELSE all[CHOOSE i \in owned : \A j \in owned : i <= j].id

StoredIds(all) == {all[i].id : i \in DOMAIN all}

\* C1: deleteSession on the current session leaves currentSessionId equal to
\* the id of the first remaining session of the active user, or null when that
\* user has none left; it is never the deleted id and never a session that is
\* missing or owned by another user.
C1_DeleteCurrentFallsBack ==
  [][(op'.name = "deleteSession" /\ op'.sid = op'.prevSid) =>
       /\ currentSessionId' = FirstOwnedId(allSessions', currentUser'.id)
       /\ currentSessionId' # op'.sid
       /\ op'.sid \notin StoredIds(allSessions')
       /\ \/ currentSessionId' = NoSession
          \/ \E i \in DOMAIN allSessions' :
               /\ allSessions'[i].id = currentSessionId'
               /\ allSessions'[i].userId = currentUser'.id]_vars

\* C1 witness: the current session was deleted while a session of another user
\* stands first in the store, and the fallback is a session of the active user.
C1_Witness ==
  /\ op.name = "deleteSession" /\ op.sid = op.prevSid
  /\ currentSessionId # NoSession
  /\ allSessions # <<>> /\ allSessions[1].userId # currentUser.id
  /\ currentUser # NoUser

\* C2: the exposed session list is exactly the stored sessions owned by the
\* active user, in stored order (empty without a user), and the exposed current
\* session is null or owned by the active user.
C2_ViewFilteredByUser ==
  /\ {sessions[i] : i \in DOMAIN sessions}
       = {allSessions[i] : i \in OwnedPositions(allSessions, currentUser.id)}
  /\ Len(sessions) = Cardinality(OwnedPositions(allSessions, currentUser.id))
  /\ \A i, j \in DOMAIN sessions :
       i < j => \E k, l \in DOMAIN allSessions :
                  k < l /\ allSessions[k] = sessions[i] /\ allSessions[l] = sessions[j]
  /\ currentUser = NoUser => sessions = <<>>
  /\ \/ currentSession = NoSessionRec
     \/ /\ currentUser # NoUser
        /\ currentSession.userId = currentUser.id
        /\ currentSession.id = currentSessionId

\* C2 witness: right after a switch of user, the current session id still names
\* a session of the previous user, the store holds sessions of both users, and
\* the new user sees only their own.
C2_Witness ==
  /\ op.name = "switchUser"
  /\ currentSessionId # NoSession
  /\ \E i \in DOMAIN allSessions :
       allSessions[i].id = currentSessionId /\ allSessions[i].userId # currentUser.id
  /\ sessions # <<>>
  /\ Len(sessions) < Len(allSessions)

\* C3: once the effects that follow a change of user have run, a non-null
\* currentSessionId names a stored session of the active user; and when the
\* user-change effect finds the current id missing or owned by someone else, it
\* replaces it by the id of the user's first session, or null without one.
C3_RevalidatedAfterUserChange ==
  /\ [](Quiescent /\ currentUser # NoUser /\ currentSessionId # NoSession =>
          \E i \in DOMAIN allSessions :
            /\ allSessions[i].id = currentSessionId
            /\ allSessions[i].userId = currentUser.id)
  /\ [][(/\ op'.name = "revalidate"
         /\ currentUser # NoUser
         /\ currentSessionId # NoSession
         /\ ~ \E i \in DOMAIN allSessions :
                /\ allSessions[i].id = currentSessionId
                /\ allSessions[i].userId = currentUser.id) =>
          currentSessionId' = FirstOwnedId(allSessions, currentUser.id)]_vars

\* C3 witness: the user-change effect has just replaced the id of another
\* user's session by the id of a session of the active user.
C3_Witness ==
  /\ op.name = "revalidate"
  /\ op.prevSid # NoSession /\ op.prevSid # currentSessionId
  /\ currentSessionId # NoSession
  /\ \E i \in DOMAIN allSessions :
       allSessions[i].id = op.prevSid /\ allSessions[i].userId # currentUser.id

\* the part of a typed name between its first and its last non-blank character
Core(s) ==
  LET solid == {i \in DOMAIN s : s[i] # " "}
  IN  IF solid = {} THEN <<>>
      ELSE SubSeq(s, CHOOSE i \in solid : \A j \in solid : i <= j,
                     CHOOSE i \in solid : \A j \in solid : j <= i)

\* two typed names that differ only in letter case or in surrounding blanks
SameUpToCaseAndBlanks(a, b) ==
  /\ Len(Core(a)) = Len(Core(b))
  /\ \A i \in DOMAIN Core(a) : LowerChar(Core(a)[i]) = LowerChar(Core(b)[i])

\* C4: a login that follows a login with a name differing only in letter case
\* or surrounding blanks resolves to the same user id and adds no user record.
C4_LoginIgnoresCaseAndBlanks ==
  [][(/\ op.name = "login" /\ op'.name = "login"
      /\ SameUpToCaseAndBlanks(op.arg, op'.arg)) =>
       /\ currentUser'.id = currentUser.id
       /\ users' = users]_vars

\* C4 witness: " A" was typed and resolved to the one record, created as "a".
C4_Witness ==
  /\ op.name = "login" /\ op.arg = <<" ", "A">>
  /\ Len(users) = 1
  /\ currentUser.name = <<"a">> /\ currentUser.id = <<"a">>

\* ------------------------------------------------------------ the chat turn
\* the memory search did not deliver a body: the request threw, the status was
\* not a success, or the body could not be parsed
SearchFailed(outcome) == outcome.kind \in {"throw", "notok", "badbody"}

Parts(prompt) == {prompt[i] : i \in DOMAIN prompt}

\* C5: when the memory search of a turn fails (the request throws, the status
\* is not a success, or the body cannot be read) the turn goes on: the context
\* is empty, the prompt is built without the background-information block, the
\* model is called with that prompt, and nothing stands in the way of the
\* handler's next step.
C5_SearchFailureKeepsTurn ==
  \A t \in DOMAIN turns :
    LET r == turns[t]
    IN  SearchFailed(r.searchOutcome) =>
          /\ r.pc \in {"searched", "prompt_built", "streaming"}
          /\ r.memoryContext = <<>>
          /\ r.pc = "searched" /\ dirty = {} => ENABLED BuildPrompt(t)
          /\ r.pc = "prompt_built" =>
               /\ r.systemPrompt # <<>>
               /\ ContextHeading \notin Parts(r.systemPrompt)
               /\ dirty = {} => ENABLED StartModel(t)
          /\ r.pc = "streaming" =>
               /\ r.modelCalls = 1
               /\ ContextHeading \notin Parts(r.systemPrompt)
               /\ \A text \in Replies : dirty = {} => ENABLED StreamCompletes(t, text)

\* C5 witness: the search answered with a non-success status and a body that
\* holds a profile and a memory; the model is streaming the reply.
C5_Witness ==
  \E t \in DOMAIN turns :
    /\ turns[t].pc = "streaming"
    /\ turns[t].searchOutcome.kind = "notok"
    /\ turns[t].searchOutcome.results # <<>>
    /\ turns[t].modelCalls = 1

\* C6: whatever the client sent before, the vision model is chosen for a turn
\* exactly when that turn itself carries an image.
C6_VisionIffTurnHasImage ==
  \A t \in DOMAIN turns :
    turns[t].pc = "streaming" =>
      /\ turns[t].modelName \in {"qwen-vl-plus", "qwen-plus"}
      /\ turns[t].modelName = "qwen-vl-plus" <=> turns[t].sentImages # <<>>

\* C7: a write-back that fails (a network error or a non-2xx answer) throws
\* nothing to the caller of the handler and leaves the conversation on screen
\* and its status as they were.
C7_SaveFailureIsSilent ==
  /\ [](\A t \in DOMAIN turns : ~turns[t].threw)
  /\ [][(op'.name = "saveSettles" /\ op'.arg # <<"ok">>) =>
          /\ turns'[op'.sid].pc = "done"
          /\ ~turns'[op'.sid].threw
          /\ messages' = messages
          /\ status' = status
          /\ status' # "error"]_vars

\* C7 witness: the add endpoint answered 500 after the reply of the turn was
\* delivered to the conversation on screen.
C7_Witness ==
  /\ op.name = "saveSettles" /\ op.arg = <<"http500">>
  /\ turns[op.sid].pc = "done"
  /\ messages # <<>> /\ messages[Len(messages)].role = "assistant"
  /\ status = "ready"

\* C8: the write-back of a turn whose stream completed is issued once, carries
\* exactly the pair [user: the text the user sent in this turn, assistant: the
\* reply of this turn], the id of the user who sent the turn, and no other
\* field.
C8_WriteBackPayload ==
  \A t \in DOMAIN turns :
    turns[t].pc = "saving" =>
      /\ turns[t].addCalls = 1
      /\ turns[t].addRequest.messages =
           <<[role |-> "user", content |-> turns[t].sentText],
             [role |-> "assistant", content |-> turns[t].text]>>
      /\ turns[t].addRequest.user_id = turns[t].actingUser
      /\ turns[t].addRequest.fields = {"messages", "user_id"}

\* C9: in a turn the search has settled before the prompt is built, the prompt
\* is built before the model is called, and the write-back is issued only once
\* the stream has completed and the reply text is there.
C9_TurnOrder ==
  /\ [](\A t \in DOMAIN turns :
          LET r == turns[t]
          IN  /\ r.pc \in {"sent", "searching"} =>
                   r.searchOutcome = NoOutcome /\ r.systemPrompt = <<>>
              /\ r.pc \in {"sent", "searching", "searched"} => r.systemPrompt = <<>>
              /\ r.pc \in {"sent", "searching", "searched", "prompt_built"} =>
                   r.modelCalls = 0
              /\ r.pc \in {"sent", "searching", "searched", "prompt_built",
                           "streaming", "finished", "failed"} =>
                   r.addCalls = 0 /\ r.addRequest = NoRequest
              /\ r.addRequest # NoRequest =>
                   r.text \in Replies /\ r.addRequest.messages[2].content = r.text)
  /\ [][/\ op'.name = "buildPrompt" =>
             turns[op'.sid].searchOutcome \in SearchOutcomes
        /\ op'.name = "startModel" =>
             /\ turns[op'.sid].systemPrompt # <<>>
             /\ turns[op'.sid].searchOutcome \in SearchOutcomes
        /\ op'.name = "onFinish" =>
             /\ turns[op'.sid].pc = "finished"
             /\ turns[op'.sid].modelCalls = 1
             /\ turns[op'.sid].text \in Replies]_vars

\* C9 witness: the write-back has just been issued, with the reply in it.
C9_Witness ==
  /\ op.name = "onFinish"
  /\ turns[op.sid].pc = "saving"
  /\ turns[op.sid].addRequest.messages[2].content = "r1"

RECURSIVE BulletsOf(_)
BulletsOf(prompt) ==
  IF Len(prompt) < 2 THEN <<>>
  ELSE IF Head(prompt) = "\n- "
       THEN <<prompt[2]>> \o BulletsOf(Tail(Tail(prompt)))
       ELSE BulletsOf(Tail(prompt))

\* C11: for every answer of the search that was read, the prompt holds the
\* background-information block exactly when the profile is non-empty or
\* there is a snippet; the profile line is there exactly when the profile is
\* non-empty, the memories heading exactly when there is a snippet, and the
\* bullets are the snippets in the order returned; with both empty the prompt
\* is the two fixed parts and nothing else.
C11_ContextBlockOnlyIfContent ==
  \A t \in DOMAIN turns :
    LET r == turns[t]
        o == r.searchOutcome
        parts == Parts(r.systemPrompt)
    IN  (r.pc \in {"prompt_built", "streaming"} /\ o.kind = "ok") =>
          /\ ContextHeading \in parts <=> (o.profile_content # "" \/ o.results # <<>>)
          /\ "\nUser Profile: " \in parts <=> o.profile_content # ""
          /\ o.profile_content # "" => o.profile_content \in parts
          /\ "\n\nRelated Memories:" \in parts <=> o.results # <<>>
          /\ BulletsOf(r.systemPrompt) = o.results
          /\ (o.profile_content = "" /\ o.results = <<>>) => Len(r.systemPrompt) = 2

\* C11 witness: the search returned two snippets and no profile, and the
\* prompt lists the two in that order under the block heading.
C11_Witness ==
  \E t \in DOMAIN turns :
    /\ turns[t].pc = "prompt_built"
    /\ turns[t].searchOutcome.kind = "ok"
    /\ turns[t].searchOutcome.profile_content = ""
    /\ turns[t].searchOutcome.results = <<"m1", "m2">>
    /\ ContextHeading \in Parts(turns[t].systemPrompt)
    /\ BulletsOf(turns[t].systemPrompt) = <<"m1", "m2">>

\* ------------------------------------------------------- the stored sessions
\* C12: every stored session's title and preview are the ones generated from
\* the message list it holds, whatever lists updateSessionMessages was given,
\* the empty list included.
C12_TitleAndPreviewDerived ==
  \A i \in DOMAIN allSessions :
    /\ allSessions[i].title = GenerateTitle(allSessions[i].messages)
    /\ allSessions[i].preview = GeneratePreview(allSessions[i].messages)

\* C13: updateSessionMessages on a stored session leaves its updatedAt
\* strictly greater than it was, the clock having moved or not.
C13_UpdatedAtStrictlyIncreases ==
  [][op'.name = "updateSessionMessages" =>
       \A i \in DOMAIN allSessions :
         allSessions[i].id = op'.sid =>
           allSessions'[i].updatedAt.time > allSessions[i].updatedAt.time]_vars

\* C17: createSession without an active user returns null and leaves the
\* session list and currentSessionId as they were; with an active user it
\* puts one new session first in the list, owned by that user, with no
\* messages and a fresh id, and makes it the current session.
C17_CreateSessionNeedsUser ==
  [][op'.name = "createSession" =>
       IF currentUser.id = NoId
       THEN /\ op'.arg = <<"null">>
            /\ allSessions' = allSessions
            /\ currentSessionId' = currentSessionId
       ELSE /\ op'.arg # <<"null">>
            /\ Len(allSessions') = Len(allSessions) + 1
            /\ Tail(allSessions') = allSessions
            /\ Head(allSessions').userId = currentUser.id
            /\ Head(allSessions').messages = <<>>
            /\ Head(allSessions').id \notin StoredIds(allSessions)
            /\ currentSessionId' = Head(allSessions').id]_vars

\* C17 witness: createSession was called after a logout, with sessions of the
\* logged-out user in the store, and returned null.
C17_Witness ==
  /\ op.name = "createSession" /\ op.arg = <<"null">>
  /\ currentUser = NoUser
  /\ allSessions # <<>>
  /\ currentSessionId # NoSession

\* ------------------------------------------------- the records of the user
\* C14: once the user store has loaded, the in-memory current user, the
\* persisted current-user marker and the membox_user_id cookie either all name
\* the same id, an id of the user list, or are all absent.
C14_UserRecordsAgree ==
  isUserLoaded =>
    \/ /\ currentUser # NoUser
       /\ currentUser.id \in KnownUserIds
       /\ lsCurrentUser = currentUser.id
       /\ cookieUser.set /\ cookieUser.value = currentUser.id
    \/ /\ currentUser = NoUser
       /\ lsCurrentUser = NoId
       /\ ~cookieUser.set

\* C15: logout clears the current user, the persisted marker and the user-id
\* cookie and leaves the user list and every stored session, in memory and in
\* local storage, as they were; while nobody is logged in the sessions in
\* memory change only by deleteSession (and by a reload, which reads them back
\* from local storage) and local storage only when the save effect writes
\* them; a login with the name of a listed user gets that user's id, adds no
\* record, finds in memory the sessions that are stored, and shows those of
\* them that the user owns.
C15_LogoutKeepsUsersAndSessions ==
  [][/\ op'.name = "logout" =>
          /\ currentUser' = NoUser
          /\ lsCurrentUser' = NoId
          /\ ~cookieUser'.set
          /\ users' = users /\ lsUsers' = lsUsers
          /\ allSessions' = allSessions /\ lsSessions' = lsSessions
     /\ (currentUser = NoUser /\ currentUser' = NoUser) =>
          /\ op'.name \notin {"deleteSession", "reload", "loadSessions"} =>
               allSessions' = allSessions
          /\ op'.name = "loadSessions" => SerializeSessions(allSessions') = lsSessions
          /\ op'.name # "saveSessions" => lsSessions' = lsSessions
     /\ op'.name = "login" =>
          LET existing == FindUserByName(users, Trim(op'.arg))
          IN  /\ existing # NoUser =>
                   currentUser'.id = existing.id /\ users' = users
              /\ SerializeSessions(allSessions) = lsSessions
              /\ allSessions' = allSessions
              /\ sessions' = VisibleSessions(allSessions, currentUser'.id)]_vars

\* C15 witness: a user who had logged out is logged in again under the id of
\* the listed record and sees sessions made before, while sessions of another
\* user are stored as well.
C15_Witness ==
  /\ op.name = "login" /\ op.prevUser = NoId
  /\ Len(users) = 2
  /\ sessions # <<>>
  /\ \E i \in DOMAIN allSessions : allSessions[i].userId # currentUser.id

\* the characters of a typed name from its first to its last non-blank one,
\* in lower case, with an underscore for the first blank of every run of
\* blanks and nothing for the blanks that follow it
RECURSIVE Squeeze(_, _)
Squeeze(s, i) ==
  IF i > Len(s) THEN <<>>
  ELSE (IF s[i] # " " THEN <<LowerChar(s[i])>>
        ELSE IF s[i - 1] # " " THEN <<"_">> ELSE <<>>) \o Squeeze(s, i + 1)

IdOfName(name) == Squeeze(Core(name), 1)

\* C16: whatever the user list of the store holds, login resolves a name to
\* the id computed from the name alone (trimmed, lowercased, every run of
\* blanks one underscore), and every record of the list carries the id
\* computed from its own name; so two stores with differing lists resolve the
\* same name to the same id.
C16_IdIsFunctionOfName ==
  [][op'.name = "login" =>
       /\ currentUser'.id = IdOfName(op'.arg)
       /\ lsCurrentUser' = IdOfName(op'.arg)
       /\ \A i \in DOMAIN users' : users'[i].id = IdOfName(users'[i].name)]_vars

\* C16 witness: " a A " was resolved to "a_a" by a store that lists three
\* records, the one it matched having been created under another spelling.
C16_Witness ==
  /\ op.name = "login" /\ op.arg = <<" ", "a", " ", "A", " ">>
  /\ currentUser.id = <<"a", "_", "a">>
  /\ currentUser.name = <<"a", " ", "a">>
  /\ Len(users) = 3

\* ------------------------------------------------------- images of a message
\* the message ids whose images a step sets or changes
NewlyAssociated ==
  {id \in DOMAIN messageImages' :
     id \notin DOMAIN messageImages \/ messageImages'[id] # messageImages[id]}

\* C18: a submit with pending images empties the pending list; whenever
\* images are associated with a message id, the id is that of the user message
\* of the latest submit and the images are the ones that submit took, in
\* either order of the association effect and the arrival of the message; and
\* once the effects have run, the message of a submit that took images has
\* them.
C18_ImagesGoToTheNewMessage ==
  /\ [](\A t \in DOMAIN turns :
          (turns[t].pc = "sent" /\ dirty = {} /\ turns[t].sentImages # <<>>) =>
            /\ UserMessageId(t) \in DOMAIN messageImages
            /\ messageImages[UserMessageId(t)] = turns[t].sentImages)
  /\ [][/\ (op'.name = "submit" /\ pendingImages # <<>>) => pendingImages' = <<>>
        /\ \A id \in NewlyAssociated :
             /\ id = UserMessageId(Len(turns'))
             /\ messageImages'[id] = turns'[Len(turns')].sentImages]_vars

\* C19: in the messages handed to the model for a turn, only the last message
\* carries images, and only when it is a user message; the images it carries
\* are the ones attached in this turn, so that no image of an earlier turn is
\* handed to the model again.
C19_ImagesForOneTurnOnly ==
  \A t \in DOMAIN turns :
    LET r == turns[t]
        last == Len(r.modelMessages)
    IN  r.pc = "streaming" =>
          /\ \A i \in DOMAIN r.modelMessages :
               r.modelMessages[i].images # <<>> =>
                 i = last /\ r.modelMessages[i].role = "user"
          /\ r.modelMessages[last].images = r.sentImages

\* ---------------------------------------------------------- deleteSession
\* the positions of the stored sessions other than the one named
OtherPositions(all, sessionId) == {i \in DOMAIN all : all[i].id # sessionId}

\* new holds the sessions of old other than the one named, each as it was and
\* in the order they had
KeepsTheOthers(old, new, sessionId) ==
  /\ Len(new) = Cardinality(OtherPositions(old, sessionId))
  /\ \A j \in DOMAIN new : new[j].id # sessionId
  /\ \A i \in OtherPositions(old, sessionId) : \E j \in DOMAIN new : new[j] = old[i]
  /\ \A i, k \in OtherPositions(old, sessionId) :
       i < k => \E j, l \in DOMAIN new : j < l /\ new[j] = old[i] /\ new[l] = old[k]

\* C21 as stated: deleteSession(id) removes the session with that id, at most
\* one, and keeps every other stored session of every user as it was; when id
\* is not the current session the current session id stays; when id names no
\* stored session nothing of the store changes.
C21_DeleteSessionFrameAsStated ==
  [][op'.name = "deleteSession" =>
       /\ KeepsTheOthers(allSessions, allSessions', op'.sid)
       /\ Len(allSessions) - Len(allSessions') <= 1
       /\ op'.sid # currentSessionId => currentSessionId' = currentSessionId
       /\ op'.sid \notin StoredIds(allSessions) =>
            allSessions' = allSessions /\ currentSessionId' = currentSessionId]_vars

\* C21, amended: deleteSession(id) removes the session with that id, at most
\* one, and keeps every other stored session of every user as it was; when id
\* is not the current session the current session id stays; when id names no
\* stored session the session list stays, and so does the current session id
\* while a user is logged in; with nobody logged in a current session id that
\* is the id named, and so names no stored session, becomes null.
C21_DeleteSessionFrame ==
  [][op'.name = "deleteSession" =>
       /\ KeepsTheOthers(allSessions, allSessions', op'.sid)
       /\ Len(allSessions) - Len(allSessions') <= 1
       /\ op'.sid # currentSessionId => currentSessionId' = currentSessionId
       /\ op'.sid \notin StoredIds(allSessions) =>
            /\ allSessions' = allSessions
            /\ currentUser # NoUser => currentSessionId' = currentSessionId
            /\ (currentUser = NoUser /\ op'.sid = currentSessionId) =>
                 currentSessionId' = NoSession]_vars

\* C21 witness: a stored session that was not the current one has been
\* deleted; the current session is the one it was, and a session of another
\* user is still stored.
C21_Witness ==
  /\ op.name = "deleteSession"
  /\ op.prevSid # NoSession /\ op.sid # op.prevSid
  /\ currentSessionId = op.prevSid
  /\ Len(allSessions) = nextId - 2
  /\ \E i \in DOMAIN allSessions : allSessions[i].userId # currentUser.id
  /\ \E i \in DOMAIN allSessions : allSessions[i].userId = currentUser.id

\* ------------------------------------------------------------- persistence
\* two session lists hold the same sessions: ids, owners, titles, previews,
\* messages, and both dates as Date objects of the same instants
SameSessions(a, b) ==
  /\ Len(a) = Len(b)
  /\ \A i \in DOMAIN a :
       /\ a[i].id = b[i].id /\ a[i].userId = b[i].userId
       /\ a[i].title = b[i].title /\ a[i].preview = b[i].preview
       /\ a[i].messages = b[i].messages
       /\ a[i].createdAt.type = "Date" /\ b[i].createdAt.type = "Date"
       /\ a[i].updatedAt.type = "Date" /\ b[i].updatedAt.type = "Date"
       /\ a[i].createdAt.time = b[i].createdAt.time
       /\ a[i].updatedAt.time = b[i].updatedAt.time

\* the save effects have run on the state that is in memory
Saved == isLoaded /\ SaveSessionsFx \notin dirty /\ SaveCurrentFx \notin dirty

\* C22: once the save effects have run, local storage holds the sessions of
\* all users, with their dates as strings, and the current session id, and
\* reading it back gives the sessions that are in memory; a reload leaves
\* local storage as it is, and the load that follows puts into memory the
\* sessions read back from it and the stored current session id.
C22_SaveLoadRoundTrip ==
  /\ [](Saved =>
          /\ SameSessions(DeserializeSessions(lsSessions), allSessions)
          /\ \A i \in DOMAIN lsSessions :
               lsSessions[i].createdAt.type = "string"
               /\ lsSessions[i].updatedAt.type = "string"
          /\ lsCurrentSession = currentSessionId)
  /\ [][/\ op'.name = "reload" =>
             /\ Saved
             /\ lsSessions' = lsSessions /\ lsCurrentSession' = lsCurrentSession
        /\ op'.name = "loadSessions" =>
             /\ SameSessions(allSessions', DeserializeSessions(lsSessions))
             /\ currentSessionId' = lsCurrentSession]_vars

\* C22 witness: a load has restored two sessions, one of them with messages
\* and updated after it was created, and the current session id.
C22_Witness ==
  /\ op.name = "loadSessions"
  /\ Len(allSessions) = 2
  /\ currentSessionId # NoSession
  /\ \E i \in DOMAIN allSessions :
       /\ allSessions[i].messages # <<>>
       /\ allSessions[i].updatedAt.time > allSessions[i].createdAt.time

\* C23: while the session store has not loaded, no step writes or removes
\* the stored session list or the stored current session id.
C23_NoWriteBeforeLoad ==
  [][~isLoaded =>
       lsSessions' = lsSessions /\ lsCurrentSession' = lsCurrentSession]_vars

\* C23 witness: the store has just loaded from a local storage that holds
\* sessions and a current session id, and both are still there.
C23_Witness ==
  /\ op.name = "loadSessions"
  /\ lsSessions # <<>> /\ lsCurrentSession # NoSession
  /\ SameSessions(allSessions, DeserializeSessions(lsSessions))


\* ------------------------------------------------------ one record per id
\* C24: no two records of the user list carry the same id, so an id names at
\* most one user of the list.
C24_UserIdsAreDistinct ==
  \A i, j \in DOMAIN users : users[i].id = users[j].id => i = j


\* ------------------------------------------------------ the initial session
\* the ids of the users who can log in on the page
PageUserIds == {UserIdOf(Trim(n)) : n \in LoginNames}

\* C25: whenever both stores are loaded and a user is logged in, that user
\* eventually has at least one session and a current session of their own,
\* with no effect left to run; the initial-session effect creates a session
\* only for a user who has none, the session is empty, owned by that user and
\* current, and it is then that user's only session.
C25_EventuallyASession ==
  /\ \A u \in PageUserIds :
       (isUserLoaded /\ isLoaded /\ currentUser.id = u)
         ~> (/\ Quiescent
             /\ currentUser.id = u
             /\ Len(sessions) >= 1
             /\ currentSession.id # NoSession
             /\ currentSession.userId = u)
  /\ [][(op'.name = "initialSession" /\ nextId' # nextId) =>
          /\ Len(sessions) = 0
          /\ Len(sessions') = 1
          /\ currentSessionId' = nextId
          /\ currentSession'.userId = currentUser.id
          /\ currentSession'.messages = <<>>]_vars

\* C25 witness: the user deleted their last session and the effect has made
\* the second initial session of this user, which is current.
C25_Witness ==
  /\ Quiescent
  /\ currentUser # NoUser
  /\ Len(sessions) = 1
  /\ currentSession.id = 2
  /\ \A i \in DOMAIN allSessions : allSessions[i].userId = currentUser.id
  /\ Len(allSessions) = 1


\* ------------------------------------------------- messages stay where sent
\* the stored messages of the session with this id, <<>> when it is not stored
StoredMessages(list, id) ==
  LET found == FindSession(list, id)
  IN  IF found.id = NoSession THEN <<>> ELSE found.messages

IsPrefix(a, b) == Len(a) <= Len(b) /\ SubSeq(b, 1, Len(a)) = a

\* C26: every stored session holds only messages that were sent or received
\* while it was the current session; the stored message list of a session
\* changes only by the sync effect, for the current session, by getting longer
\* at its end; and a step that changes the current session changes no stored
\* message list.
C26_MessagesStayInTheirSession ==
  /\ [](\A i \in DOMAIN allSessions :
          \A k \in DOMAIN allSessions[i].messages :
            allSessions[i].messages[k].text = SessionTexts[allSessions[i].id])
  /\ [][\A i \in DOMAIN allSessions, j \in DOMAIN allSessions' :
          (/\ allSessions[i].id = allSessions'[j].id
           /\ allSessions'[j].messages # allSessions[i].messages)
          => /\ op'.name = "syncMessages"
             /\ allSessions[i].id = currentSessionId
             /\ currentSessionId' = currentSessionId
             /\ IsPrefix(allSessions[i].messages, allSessions'[j].messages)]_vars

\* C26 witness: session 1 holds its two messages, session 2 is current and
\* holds one of its own, and the sync effect has just written it.
C26_Witness ==
  /\ op.name = "syncMessages"
  /\ currentSessionId = 2
  /\ Len(StoredMessages(allSessions, 1)) = 2
  /\ Len(StoredMessages(allSessions, 2)) = 1
  /\ messages = StoredMessages(allSessions, 2)


\* ------------------------------------------- the user id of the write-back
\* the turns whose handler is running
Running(ts) == {t \in DOMAIN ts : ts[t].pc \notin {"sent", "done", "failed"}}

\* C27: the request of a turn carries the membox_user_id cookie as the submit
\* left it; the handler reads its user id from that header ('default_user'
\* when the header has no value for it), sends it with the memory search, keeps
\* it while the handler runs, whatever the page does meanwhile, and sends it
\* with the write-back.
C27_WriteBackUserIsTheSubmitted ==
  [][/\ op'.name = "submit" =>
          turns'[op'.sid].hdrUser = cookieUser'
     /\ \A t \in DOMAIN turns :
          turns[t].pc = "sent" /\ turns'[t].pc = "sent" =>
            turns'[t].hdrUser = turns[t].hdrUser
     /\ op'.name = "post" =>
          /\ turns'[op'.sid].effectiveUserId = EffectiveUserId(turns[op'.sid].hdrUser)
          /\ turns'[op'.sid].searchRequest.user_id = turns'[op'.sid].effectiveUserId
     /\ \A t \in Running(turns) \cap Running(turns') :
          turns'[t].effectiveUserId = turns[t].effectiveUserId
     /\ op'.name = "onFinish" =>
          /\ op'.sid \in Running(turns)
          /\ turns'[op'.sid].addRequest.user_id = turns[op'.sid].effectiveUserId]_vars

\* C27 witness: the write-back of the first turn goes out for user "a", who
\* submitted it, while user ";" is logged in, whose second turn is searched
\* for under 'default_user'.
C27_Witness ==
  /\ op.name = "onFinish" /\ op.sid = 1
  /\ turns[1].addRequest.user_id = <<"a">>
  /\ currentUser.id = <<";">>
  /\ Len(turns) = 2
  /\ turns[2].pc = "searching"
  /\ turns[2].searchRequest.user_id = DefaultUserId


\* ------------------------------------------------------- images without text
\* C28: whenever the form can be submitted and an image is pending, submitting
\* it with a blank text sends a turn with the text 'Please describe these
\* images' and the pending images.
C28_ImagesAloneAreSent ==
  (Quiescent /\ currentUser # NoUser /\ status # "busy" /\ Len(pendingImages) > 0)
    => ENABLED (/\ SubmitForm(" ")
                /\ Len(turns') = Len(turns) + 1
                /\ turns'[Len(turns')].sentText = "Please describe these images"
                /\ turns'[Len(turns')].sentImages = pendingImages)


\* ------------------------------------------------- a malformed images cookie
\* the cookie is absent, or holds the encoding of a list of absolute URLs
IsListOfUrls(cookie) ==
  \/ ~cookie.set
  \/ cookie.value = <<>>
  \/ /\ Len(cookie.value) >= 2
     /\ cookie.value[1] = "[" /\ cookie.value[Len(cookie.value)] = "]"
     /\ \A i \in 2..(Len(cookie.value) - 1) : IsAbsoluteUrl(cookie.value[i])

\* C29: the handler of a request whose membox_images cookie is no encoding of
\* a list of image URLs goes on to the memory search with no image from the
\* cookie, and no exception ever leaves a handler.
C29_MalformedCookieIsNoImages ==
  /\ [](\A t \in DOMAIN turns : ~turns[t].threw)
  /\ [][(op'.name = "post" /\ ~IsListOfUrls(turns[op'.sid].hdrImages)) =>
          /\ turns'[op'.sid].pc = "searching"
          /\ turns'[op'.sid].lastMessageImages = <<>>
          /\ ~turns'[op'.sid].hasImages]_vars

====
